---- MODULE Spec2Model ----
(***************************************************************************)
(* Group trip planner: the consensus engine (algorithms/consensus.py),     *)
(* the route optimizer (algorithms/optimizer.py), the ranking engine       *)
(* (algorithms/scoring.py) and the session store (utils/data_handler.py).  *)
(*                                                                         *)
(* Each component has a record-valued variable holding the arguments of    *)
(* one call and its result, and a specification of its own (SpecAlloc,     *)
(* SpecRoute, ...) whose Init draws the arguments from bounded sets.  A    *)
(* component that a specification does not exercise stays Unused.          *)
(***************************************************************************)
EXTENDS Integers, Sequences, FiniteSets, TLC

VARIABLES
    alloc,      \* one call of allocate_days_to_cities
    route,      \* one call of optimize_route
    store,      \* the session files: session id -> session record or None
    client,     \* the callers of the session store and where each one is
    clock,      \* datetime.now(), counted in submissions
    mix,        \* one call of select_adventurous_mix
    rank,       \* one call of rank_cities_for_group
    vote,       \* one call of select_region
    count,      \* one derivation of the target city count
    run,        \* one run of generate_itinerary_options
    loaded,     \* one call of load_regions
    compat,     \* one call of calculate_group_compatibility
    fit,        \* one call of calculate_budget_fit or estimate_trip_cost
    travel,     \* one call of create_travel_plan
    pick        \* one call of select_budget_friendly_cities

vars == <<alloc, route, store, client, clock, mix, rank, vote, count, run,
          loaded, compat, fit, travel, pick>>

selectionVars == <<travel, pick>>

pipelineVars == <<count, run, loaded, compat, fit, selectionVars>>

pureVars == <<alloc, route, mix, rank, vote, pipelineVars>>

sessionVars == <<store, client, clock>>

Unused == [pc |-> "unused"]

SessionsUnused == store = Unused /\ client = Unused /\ clock = 0

SelectionUnused == travel = Unused /\ pick = Unused

PipelineUnused ==
    /\ count = Unused
    /\ run = Unused
    /\ loaded = Unused
    /\ compat = Unused
    /\ fit = Unused
    /\ SelectionUnused

----------------------------------------------------------------------------
(* Generic helpers                                                         *)

Max(a, b) == IF a >= b THEN a ELSE b

Min(a, b) == IF a <= b THEN a ELSE b

Range(s) == {s[i] : i \in 1..Len(s)}

RECURSIVE SumSeq(_)
SumSeq(s) == IF Len(s) = 0 THEN 0 ELSE s[1] + SumSeq(Tail(s))

\* All sequences of pairwise distinct elements of S with exactly n elements.
RECURSIVE DistinctSeqs(_, _)
DistinctSeqs(S, n) ==
    IF n = 0 THEN {<<>>}
    ELSE UNION {{<<x>> \o t : t \in DistinctSeqs(S \ {x}, n - 1)} : x \in S}

\* The city names of the reference data, in a fixed order.
CityNames ==
    <<"Jaipur", "Udaipur", "Jodhpur", "Pushkar", "Ajmer",
      "Bikaner", "Kota", "Bundi", "Alwar", "Chittor">>

FirstCities(n) == SubSeq(CityNames, 1, n)

----------------------------------------------------------------------------
(* Day allocation: consensus.py, allocate_days_to_cities                   *)
(*                                                                         *)
(* available_days is a multiple of 0.5; the model carries twice its value  *)
(* (avail2), so typical_days[i] / total_typical * available_days is the    *)
(* rational typ[i] * avail2 / (2 * total_typical).                         *)

MaxAllocCities == 3
MaxTypicalDays == 3
MaxTotalDays == 8
DefaultTypicalDays == 2

\* Python's round(x) of the non-negative rational p / q: to the nearest
\* integer, a tie going to the even neighbour.
RoundHalfEven(p, q) ==
    LET f == p \div q
        r == p % q
    IN  IF 2 * r > q \/ (2 * r = q /\ f % 2 = 1) THEN f + 1 ELSE f

\* Python's int(x) of the rational p / q, q > 0: truncation towards zero.
IntTrunc(p, q) == IF p >= 0 THEN p \div q ELSE -((-p) \div q)

\* cities_database.get(city, {}).get('typical_days', 2)
TypicalDaysOf(cities_database, city) ==
    IF city \in DOMAIN cities_database
    THEN cities_database[city]
    ELSE DefaultTypicalDays

TypicalDaysList(selected_cities, cities_database) ==
    [i \in 1..Len(selected_cities) |->
        TypicalDaysOf(cities_database, selected_cities[i])]

\* Twice available_days = total_days - 0.5 * (len(selected_cities) - 1).
Avail2(selected_cities, total_days) ==
    2 * total_days - (Len(selected_cities) - 1)

CityDays_NoMinimum(typical_days, avail2, i) ==
    RoundHalfEven(typical_days[i] * avail2, 2 * SumSeq(typical_days))

\* The loop body: city_days = max(1, round(typical_days[i] / total_typical
\* * available_days)).
CityDays(typical_days, avail2, i) ==
    Max(1, RoundHalfEven(typical_days[i] * avail2, 2 * SumSeq(typical_days)))

\* allocated_total after the loop over selected_cities[:-1].
AllocatedTotal(typical_days, avail2) ==
    SumSeq([i \in 1..(Len(typical_days) - 1) |->
                CityDays(typical_days, avail2, i)])

LastCityDays_Rounded(avail2, allocated_total) ==
    Max(1, RoundHalfEven(Max(0, avail2 - 2 * allocated_total), 2))

\* max(1, int(available_days - allocated_total))
LastCityDays(avail2, allocated_total) ==
    Max(1, IntTrunc(avail2 - 2 * allocated_total, 2))

\* The returned dict: a later assignment to the same key replaces the
\* earlier one, and the last city is assigned last.
allocate_days_to_cities(selected_cities, total_days, cities_database) ==
    LET n == Len(selected_cities)
        avail2 == Avail2(selected_cities, total_days)
        typical_days == TypicalDaysList(selected_cities, cities_database)
        LastIndex(c) ==
            CHOOSE i \in 1..n :
                /\ selected_cities[i] = c
                /\ \A j \in (i + 1)..n : selected_cities[j] # c
    IN  IF avail2 < 2
        THEN [c \in Range(selected_cities) |-> 1]
        ELSE [c \in Range(selected_cities) |->
                IF LastIndex(c) = n
                THEN LastCityDays(avail2, AllocatedTotal(typical_days, avail2))
                ELSE CityDays(typical_days, avail2, LastIndex(c))]

\* The reference data of a call: any subset of the cities may be missing
\* from the database (a lookup miss takes the default).
AllocDatabases(cities) ==
    UNION {[known -> 1..MaxTypicalDays] : known \in SUBSET Range(cities)}

AllocCalls ==
    {[pc |-> "call", selected_cities |-> FirstCities(n), total_days |-> d,
      cities_database |-> db, allocation |-> <<>>] :
        n \in 1..MaxAllocCities, d \in 0..MaxTotalDays,
        db \in UNION {AllocDatabases(FirstCities(m)) : m \in 1..MaxAllocCities}}

InitAlloc ==
    /\ alloc \in {c \in AllocCalls :
                    DOMAIN c.cities_database \subseteq Range(c.selected_cities)}
    /\ route = Unused
    /\ mix = Unused
    /\ rank = Unused
    /\ vote = Unused
    /\ SessionsUnused
    /\ PipelineUnused

AllocateDays ==
    /\ alloc.pc = "call"
    /\ alloc' = [alloc EXCEPT
            !.pc = "done",
            !.allocation = allocate_days_to_cities(
                alloc.selected_cities, alloc.total_days, alloc.cities_database)]
    /\ UNCHANGED <<route, mix, rank, vote, sessionVars, pipelineVars>>

NextAlloc == AllocateDays

SpecAlloc == InitAlloc /\ [][NextAlloc]_vars

AllocSum == SumSeq([i \in 1..Len(alloc.selected_cities) |->
                        alloc.allocation[alloc.selected_cities[i]]])

AllocAvail2 == Avail2(alloc.selected_cities, alloc.total_days)

\* Twice the remainder available_days - allocated_total handed to the last
\* city on the proportional path.
AllocRemainder2 ==
    AllocAvail2 - 2 * AllocatedTotal(
        TypicalDaysList(alloc.selected_cities, alloc.cities_database),
        AllocAvail2)

\* C1 as stated: the day counts returned by allocate_days_to_cities sum to
\* exactly total_days.
C1_SumIsTotalDays ==
    alloc.pc = "done" => AllocSum = alloc.total_days

\* C1 amended: on the proportional path, when the remainder left for the
\* last city is at least one day, the day counts sum to exactly the days
\* that remain after the travel reservation, rounded down:
\* floor(total_days - 0.5 * (len(cities) - 1)); for a single city that is
\* total_days itself.
C1_SumIsAvailableDays ==
    (alloc.pc = "done" /\ AllocAvail2 >= 2 /\ AllocRemainder2 >= 2) =>
        /\ AllocSum = AllocAvail2 \div 2
        /\ Len(alloc.selected_cities) = 1 => AllocSum = alloc.total_days

C1_Witness ==
    /\ alloc.pc = "done"
    /\ Len(alloc.selected_cities) = 3
    /\ AllocAvail2 >= 2 /\ AllocRemainder2 >= 2
    /\ AllocSum = alloc.total_days - 1

\* C2: the returned mapping has an entry for every input city and every
\* entry is an integer >= 1, on the proportional path and on the
\* low-duration fallback path.
C2_EveryCityAtLeastOneDay ==
    alloc.pc = "done" =>
        /\ DOMAIN alloc.allocation = Range(alloc.selected_cities)
        /\ \A c \in DOMAIN alloc.allocation :
                alloc.allocation[c] \in Int /\ alloc.allocation[c] >= 1

\* A proportional-path call in which the rounded share of an intermediate
\* city is 0 days and the city still gets 1.
C2_Witness ==
    /\ alloc.pc = "done"
    /\ AllocAvail2 >= 2
    /\ \E i \in 1..(Len(alloc.selected_cities) - 1) :
        /\ CityDays_NoMinimum(
              TypicalDaysList(alloc.selected_cities, alloc.cities_database),
              AllocAvail2, i) = 0
        /\ alloc.allocation[alloc.selected_cities[i]] = 1

----------------------------------------------------------------------------
(* Route optimization: optimizer.py                                        *)
(*                                                                         *)
(* calculate_distance is symmetric in its two points; the model takes the  *)
(* pairwise distances of the reference data as a symmetric table, in       *)
(* thirtieths of a kilometre (a distance in that unit is never half-way    *)
(* between two tenths of a kilometre, so round(x, 1) has no ties).         *)

RouteCities == Range(FirstCities(4))

MaxDist == 2

\* float('inf'), the initial best_distance.
Infinity == -1

\* The symmetric distance tables over the route cities: distances[{a, b}].
CityPairs == {{a, b} : a, b \in RouteCities}

DistanceTables ==
    {[pr \in CityPairs |-> IF Cardinality(pr) = 1 THEN 0 ELSE t[pr]] :
        t \in [{pr \in CityPairs : Cardinality(pr) = 2} -> 1..MaxDist]}

calculate_distance(distances, city1, city2) == distances[{city1, city2}]

\* The sum of the distances between consecutive cities of the order.
calculate_route_distance(cities_order, distances) ==
    SumSeq([i \in 1..(Len(cities_order) - 1) |->
        calculate_distance(distances, cities_order[i], cities_order[i + 1])])

\* round(x, 1) of x thirtieths of a kilometre, in tenths of a kilometre.
RoundTenths(x) == (x + 1) \div 3

RemoveAt(s, i) == SubSeq(s, 1, i - 1) \o SubSeq(s, i + 1, Len(s))

\* itertools.permutations(s): the orderings of s as a sequence, in the
\* lexicographic order of the positions of s.
RECURSIVE permutations(_)
RECURSIVE PermutationsFrom(_, _)
PermutationsFrom(s, i) ==
    IF i > Len(s) THEN <<>>
    ELSE LET rest == permutations(RemoveAt(s, i))
         IN  [k \in 1..Len(rest) |-> <<s[i]>> \o rest[k]]
                \o PermutationsFrom(s, i + 1)

permutations(s) ==
    IF Len(s) = 0 THEN << <<>> >> ELSE PermutationsFrom(s, 1)

RouteStep_NoDistanceUpdate(best, candidate, distances) ==
    [route |-> candidate, distance |-> best.distance]

\* One iteration of the search loop: if distance < best_distance, the
\* candidate becomes the best route.
RouteStep(best, candidate, distances) ==
    LET distance == calculate_route_distance(candidate, distances)
    IN  IF best.distance = Infinity \/ distance < best.distance
        THEN [route |-> candidate, distance |-> distance]
        ELSE best

\* The search loop over the first k permutations.
RECURSIVE RouteSearch(_, _, _)
RouteSearch(perms, k, distances) ==
    IF k = 0 THEN [route |-> <<>>, distance |-> Infinity]
    ELSE RouteStep(RouteSearch(perms, k - 1, distances), perms[k], distances)

\* The distance matrix of the winning route: one entry per consecutive
\* pair, rounded to one decimal.
DistanceMatrix(best_route, distances) ==
    [pr \in {<<best_route[i], best_route[i + 1]>> :
                i \in 1..(Len(best_route) - 1)} |->
        RoundTenths(calculate_distance(distances, pr[1], pr[2]))]

optimize_route(cities_list, distances) ==
    IF Len(cities_list) <= 1
    THEN [route |-> cities_list, total_distance |-> 0,
          distance_matrix |-> <<>>]
    ELSE IF Len(cities_list) = 2
    THEN [route |-> cities_list,
          total_distance |->
              RoundTenths(calculate_route_distance(cities_list, distances)),
          distance_matrix |-> DistanceMatrix(cities_list, distances)]
    ELSE LET perms == permutations(cities_list)
             best == RouteSearch(perms, Len(perms), distances)
         IN  [route |-> best.route,
              total_distance |-> RoundTenths(best.distance),
              distance_matrix |-> DistanceMatrix(best.route, distances)]

RouteCalls ==
    {[pc |-> "call", cities_list |-> cl, distances |-> d,
      result |-> [route |-> <<>>, total_distance |-> 0,
                  distance_matrix |-> <<>>]] :
        cl \in UNION {DistinctSeqs(RouteCities, n) :
                        n \in 0..Cardinality(RouteCities)},
        d \in DistanceTables}

InitRoute ==
    /\ route \in RouteCalls
    /\ alloc = Unused
    /\ mix = Unused
    /\ rank = Unused
    /\ vote = Unused
    /\ SessionsUnused
    /\ PipelineUnused

OptimizeRoute ==
    /\ route.pc = "call"
    /\ route' = [route EXCEPT
            !.pc = "done",
            !.result = optimize_route(route.cities_list, route.distances)]
    /\ UNCHANGED <<alloc, mix, rank, vote, sessionVars, pipelineVars>>

NextRoute == OptimizeRoute

SpecRoute == InitRoute /\ [][NextRoute]_vars

\* The orderings of the cities of the call.
RouteOrderings == DistinctSeqs(Range(route.cities_list), Len(route.cities_list))

\* C3: the route returned by optimize_route is an ordering of the input
\* cities whose total path distance is less than or equal to that of every
\* permutation of the same cities.
C3_RouteIsShortest ==
    route.pc = "done" =>
        /\ route.result.route \in RouteOrderings
        /\ \A p \in RouteOrderings :
            calculate_route_distance(route.result.route, route.distances)
                <= calculate_route_distance(p, route.distances)

\* A four-city call whose input order is not a shortest one.
C3_Witness ==
    /\ route.pc = "done"
    /\ Len(route.cities_list) = 4
    /\ calculate_route_distance(route.result.route, route.distances)
            < calculate_route_distance(route.cities_list, route.distances)

----------------------------------------------------------------------------
(* Session store: utils/data_handler.py                                    *)
(*                                                                         *)
(* A session is one JSON file.  load_session reads the whole file and      *)
(* save_session writes the whole file; add_user_to_session is a load, a    *)
(* change of the loaded copy and a save, with nothing held in between.     *)
(* Session ids (uuid4 prefixes) are taken to be fresh.                     *)

\* The ids that uuid4 hands out, in the order in which it hands them out.
SessionIdOrder == <<"s1">>

SessionIds == Range(SessionIdOrder)

Clients == {"p1", "p2"}

Names == {"Alice", "alice", "Bob"}

PreferenceSets == {"prefsA", "prefsB"}

Creators == {"Alice"}

MaxSubmissions == 3
MaxExpectedUsers == 2

\* str.lower() on the participant names.
Lower(name) ==
    CASE name = "Alice" -> "alice"
      [] name = "alice" -> "alice"
      [] name = "Bob" -> "bob"

\* load_session of a missing file.
None == [status |-> "none"]

NoUserData == [name |-> "", preferences |-> "", user_id |-> 0,
               submitted_at |-> 0]

IdleClient == [pc |-> "idle", session_id |-> "", user_data |-> NoUserData,
               session |-> None, returned |-> "none"]

\* The session_data that create_session saves.
NewSession(creator_name, expected_users) ==
    [creator |-> creator_name, expected_users |-> expected_users,
     status |-> "collecting", users |-> <<>>, results |-> "none"]

save_session(session_id, session_data) ==
    store' = [store EXCEPT ![session_id] = session_data]

load_session(session_id) == store[session_id]

FindExistingUser_CaseSensitive(users, name) ==
    IF \E i \in 1..Len(users) : users[i].name = name
    THEN CHOOSE i \in 1..Len(users) :
            /\ users[i].name = name
            /\ \A j \in 1..(i - 1) : users[j].name # name
    ELSE 0

\* existing_user_index: the first user whose lower-cased name is the
\* lower-cased new name; 0 stands for None.
FindExistingUser(users, name) ==
    IF \E i \in 1..Len(users) : Lower(users[i].name) = Lower(name)
    THEN CHOOSE i \in 1..Len(users) :
            /\ Lower(users[i].name) = Lower(name)
            /\ \A j \in 1..(i - 1) : Lower(users[j].name) # Lower(name)
    ELSE 0

\* The users list after the replace-or-append of add_user_to_session.
UpsertUser(users, user_data) ==
    LET existing_user_index == FindExistingUser(users, user_data.name)
    IN  IF existing_user_index # 0
        THEN [users EXCEPT ![existing_user_index] = user_data]
        ELSE Append(users, user_data)

InitSession ==
    /\ store = [sid \in SessionIds |-> None]
    /\ client = [p \in Clients |-> IdleClient]
    /\ clock = 0
    /\ alloc = Unused
    /\ route = Unused
    /\ mix = Unused
    /\ rank = Unused
    /\ vote = Unused
    /\ PipelineUnused

\* create_session(creator_name, expected_users)
CreateSession(creator_name, expected_users) ==
    /\ \E k \in 1..Len(SessionIdOrder) :
        /\ store[SessionIdOrder[k]] = None
        /\ \A j \in 1..(k - 1) : store[SessionIdOrder[j]] # None
        /\ save_session(SessionIdOrder[k],
                        NewSession(creator_name, expected_users))
    /\ UNCHANGED <<client, clock, pureVars>>

\* The add_user_to_session calls that have stamped their record, and those
\* that are on their way to it.
Started ==
    clock + Cardinality({p \in Clients : client[p].pc \in {"load", "save"}})

NoCallInProgress == \A p \in Clients : client[p].pc \in {"idle", "returned"}

\* A caller enters add_user_to_session(session_id, user_data).
BeginAddUser(p, session_id, name, preferences) ==
    /\ client[p].pc \in {"idle", "returned"}
    /\ Started < MaxSubmissions
    /\ client' = [client EXCEPT ![p] =
            [pc |-> "load", session_id |-> session_id,
             user_data |-> [name |-> name, preferences |-> preferences,
                            user_id |-> 0, submitted_at |-> 0],
             session |-> None, returned |-> "none"]]
    /\ UNCHANGED <<store, clock, pureVars>>

\* session = load_session(session_id); if not session: return False
AddUserLoad(p) ==
    /\ client[p].pc = "load"
    /\ LET session == load_session(client[p].session_id)
       IN  client' = [client EXCEPT ![p] =
                IF session = None
                THEN [@ EXCEPT !.pc = "returned", !.returned = "False"]
                ELSE [@ EXCEPT !.pc = "save", !.session = session]]
    /\ UNCHANGED <<store, clock, pureVars>>

\* The rest of add_user_to_session: stamp user_data (a fresh uuid4 prefix
\* and the time, both counted by the clock), replace or append it in the
\* loaded copy, save_session, return True.
AddUserSave(p) ==
    /\ client[p].pc = "save"
    /\ clock' = clock + 1
    /\ LET user_data == [client[p].user_data EXCEPT
                            !.user_id = clock', !.submitted_at = clock']
           session == [client[p].session EXCEPT
                            !.users = UpsertUser(@, user_data)]
       IN  /\ save_session(client[p].session_id, session)
           /\ client' = [client EXCEPT ![p] =
                    [@ EXCEPT !.pc = "returned", !.returned = "True",
                              !.user_data = user_data, !.session = None]]
    /\ UNCHANGED pureVars

NextSession ==
    \/ \E creator_name \in Creators, expected_users \in 2..MaxExpectedUsers :
            CreateSession(creator_name, expected_users)
    \/ \E p \in Clients, session_id \in SessionIds, name \in Names,
            preferences \in PreferenceSets :
            BeginAddUser(p, session_id, name, preferences)
    \/ \E p \in Clients : AddUserLoad(p)
    \/ \E p \in Clients : AddUserSave(p)

\* Callers that may overlap: every interleaving of their loads and saves.
SpecSession == InitSession /\ [][NextSession]_vars

\* Sequential calls: a call starts only when no other call is in progress.
NextSessionSeq ==
    \/ \E creator_name \in Creators, expected_users \in 2..MaxExpectedUsers :
            CreateSession(creator_name, expected_users)
    \/ \E p \in Clients, session_id \in SessionIds, name \in Names,
            preferences \in PreferenceSets :
            NoCallInProgress /\ BeginAddUser(p, session_id, name, preferences)
    \/ \E p \in Clients : AddUserLoad(p)
    \/ \E p \in Clients : AddUserSave(p)

SpecSessionSeq == InitSession /\ [][NextSessionSeq]_vars

HasRecordFor(session_id, name) ==
    /\ store[session_id] # None
    /\ \E i \in 1..Len(store[session_id].users) :
            Lower(store[session_id].users[i].name) = Lower(name)

\* C5: when two add_user_to_session calls for the same session with
\* different participant names overlap, both participants have a record in
\* the persisted session once both calls have returned True.
C5_NoLostUpdate ==
    \A p, q \in Clients :
        (/\ p # q
         /\ client[p].pc = "returned" /\ client[p].returned = "True"
         /\ client[q].pc = "returned" /\ client[q].returned = "True"
         /\ client[p].session_id = client[q].session_id
         /\ Lower(client[p].user_data.name) # Lower(client[q].user_data.name))
        => /\ HasRecordFor(client[p].session_id, client[p].user_data.name)
           /\ HasRecordFor(client[q].session_id, client[q].user_data.name)

\* The persisted users lists hold at most one record per lower-cased name.
OneRecordPerName ==
    \A session_id \in SessionIds :
        store[session_id] # None =>
            \A i, j \in 1..Len(store[session_id].users) :
                Lower(store[session_id].users[i].name)
                    = Lower(store[session_id].users[j].name) => i = j

\* What one completed add_user_to_session call does to the persisted users
\* list: a resubmission replaces the record of that name in place, a new
\* name is appended, every other record is left as it was.
UpsertEffect(p) ==
    LET session_id == client[p].session_id
        old == store[session_id].users
        new == store'[session_id].users
        submitted == client'[p].user_data
        Same(i) == Lower(old[i].name) = Lower(submitted.name)
    IN  /\ submitted.name = client[p].user_data.name
        /\ submitted.preferences = client[p].user_data.preferences
        /\ IF \E i \in 1..Len(old) : Same(i)
           THEN /\ Len(new) = Len(old)
                /\ \A i \in 1..Len(old) :
                        new[i] = IF Same(i) THEN submitted ELSE old[i]
           ELSE /\ Len(new) = Len(old) + 1
                /\ new[Len(new)] = submitted
                /\ \A i \in 1..Len(old) : new[i] = old[i]

\* C6: under sequential add_user_to_session calls the users list holds at
\* most one record per case-insensitive name, a call leaves the submitted
\* record as the record of its name, a resubmission keeps the length of the
\* list and the position of the record, and a new name makes the list
\* exactly one longer.
C6_UpsertByName ==
    /\ []OneRecordPerName
    /\ [][\A p \in Clients :
            (client[p].pc = "save" /\ client'[p].pc = "returned")
                => UpsertEffect(p)]_vars

\* A resubmission under another spelling of the name has replaced the
\* first of two records in place.
C6_Witness ==
    \E session_id \in SessionIds :
        /\ store[session_id] # None
        /\ Len(store[session_id].users) = 2
        /\ store[session_id].users[1].name = "alice"
        /\ store[session_id].users[1].submitted_at
                > store[session_id].users[2].submitted_at

----------------------------------------------------------------------------
(* City selection: consensus.py, select_adventurous_mix                    *)
(*                                                                         *)
(* ranked_cities is the list of (city_name, score) pairs that              *)
(* rank_cities_for_group returns; np.random.shuffle may leave the mid      *)
(* band in any order.                                                      *)

MaxRanked == 9
MaxNumCities == 5

CityOf(pair) == pair[1]

ScoreOf(pair) == pair[2]

NamesOf(ranked_cities) ==
    [i \in 1..Len(ranked_cities) |-> CityOf(ranked_cities[i])]

\* ranked_cities[3:min(8, len(ranked_cities))]
MidRanked(ranked_cities) ==
    SubSeq(ranked_cities, 4, Min(8, Len(ranked_cities)))

\* The outcomes of np.random.shuffle(mid_ranked).
Shuffles(mid_ranked) ==
    {[i \in 1..Len(mid_ranked) |-> mid_ranked[order[i]]] :
        order \in DistinctSeqs(1..Len(mid_ranked), Len(mid_ranked))}

RECURSIVE TakeFromMid_BreakTooLate(_, _, _)
TakeFromMid_BreakTooLate(selected, mid_ranked, num_cities) ==
    IF Len(mid_ranked) = 0 \/ Len(selected) > num_cities
    THEN selected
    ELSE TakeFromMid_BreakTooLate(Append(selected, CityOf(Head(mid_ranked))),
                                  Tail(mid_ranked), num_cities)

\* for city, score in mid_ranked: if len(selected) >= num_cities: break;
\* selected.append(city)
RECURSIVE TakeFromMid(_, _, _)
TakeFromMid(selected, mid_ranked, num_cities) ==
    IF Len(mid_ranked) = 0 \/ Len(selected) >= num_cities
    THEN selected
    ELSE TakeFromMid(Append(selected, CityOf(Head(mid_ranked))),
                     Tail(mid_ranked), num_cities)

RECURSIVE PadFromRanked_NoMembershipTest(_, _, _)
PadFromRanked_NoMembershipTest(selected, rest, num_cities) ==
    IF Len(rest) = 0
    THEN selected
    ELSE LET grown == Append(selected, CityOf(Head(rest)))
         IN  IF Len(grown) >= num_cities
             THEN grown
             ELSE PadFromRanked_NoMembershipTest(grown, Tail(rest), num_cities)

\* for city, score in rest: if city not in selected: selected.append(city);
\* if len(selected) >= num_cities: break
RECURSIVE PadFromRanked(_, _, _)
PadFromRanked(selected, rest, num_cities) ==
    IF Len(rest) = 0
    THEN selected
    ELSE IF CityOf(Head(rest)) \in Range(selected)
    THEN PadFromRanked(selected, Tail(rest), num_cities)
    ELSE LET grown == Append(selected, CityOf(Head(rest)))
         IN  IF Len(grown) >= num_cities
             THEN grown
             ELSE PadFromRanked(grown, Tail(rest), num_cities)

\* select_adventurous_mix, given the order in which the shuffle left the
\* mid band.
select_adventurous_mix(ranked_cities, num_cities, shuffled_mid) ==
    LET top == IF Len(ranked_cities) > 0
               THEN <<CityOf(ranked_cities[1])>>
               ELSE <<>>
        selected == TakeFromMid(top, shuffled_mid, num_cities)
    IN  IF Len(selected) < num_cities
        THEN PadFromRanked(selected,
                           SubSeq(ranked_cities, 2, Len(ranked_cities)),
                           num_cities)
        ELSE selected

\* A ranked list of k cities: distinct names, scores in decreasing order.
RankedList(k) == [i \in 1..k |-> <<CityNames[i], 100 - 5 * i>>]

InitMix ==
    /\ mix \in {[pc |-> "call", ranked_cities |-> RankedList(k),
                 num_cities |-> n, selected |-> <<>>] :
                    k \in 0..MaxRanked, n \in 0..MaxNumCities}
    /\ alloc = Unused
    /\ route = Unused
    /\ rank = Unused
    /\ vote = Unused
    /\ SessionsUnused
    /\ PipelineUnused

AdventurousMix ==
    /\ mix.pc = "call"
    /\ \E shuffled_mid \in Shuffles(MidRanked(mix.ranked_cities)) :
        mix' = [mix EXCEPT
            !.pc = "done",
            !.selected = select_adventurous_mix(
                mix.ranked_cities, mix.num_cities, shuffled_mid)]
    /\ UNCHANGED <<alloc, route, rank, vote, sessionVars, pipelineVars>>

NextMix == AdventurousMix

SpecMix == InitMix /\ [][NextMix]_vars

\* C7 as stated: for every requested count n >= 0, select_adventurous_mix
\* returns exactly n cities when the ranked list has at least n cities, and
\* exactly len(ranked list) cities otherwise.
C7_ReturnsRequestedCount ==
    mix.pc = "done" =>
        Len(mix.selected) = IF Len(mix.ranked_cities) >= mix.num_cities
                            THEN mix.num_cities
                            ELSE Len(mix.ranked_cities)

\* C7 amended: for every requested count n >= 1 and every outcome of the
\* shuffle, select_adventurous_mix returns exactly min(n, len(ranked list))
\* cities; for n = 0 it returns the top-ranked city alone (nothing when the
\* ranked list is empty).
C7_ReturnsRequestedCountFromOne ==
    mix.pc = "done" =>
        /\ mix.num_cities >= 1 =>
            Len(mix.selected) = Min(mix.num_cities, Len(mix.ranked_cities))
        /\ mix.num_cities = 0 =>
            mix.selected = SubSeq(NamesOf(mix.ranked_cities), 1,
                                  Min(1, Len(mix.ranked_cities)))

\* A call that fills the list from the shuffled mid band and then pads it
\* from the ranked list.
C7_Witness ==
    /\ mix.pc = "done"
    /\ Len(mix.ranked_cities) = 6
    /\ mix.num_cities = 5
    /\ Len(mix.selected) = 5
    /\ mix.selected[2] = CityOf(mix.ranked_cities[6])

\* C8: for every ranked list of distinct city names, every requested count
\* and every outcome of the shuffle, the list returned by
\* select_adventurous_mix contains no city twice, and contains the
\* top-ranked city whenever the ranked list is non-empty.
C8_NoDuplicatesAndTopCity ==
    mix.pc = "done" =>
        /\ \A i, j \in 1..Len(mix.selected) :
                mix.selected[i] = mix.selected[j] => i = j
        /\ Len(mix.ranked_cities) > 0 =>
                CityOf(mix.ranked_cities[1]) \in Range(mix.selected)

\* A call whose padding loop walks over cities the mid band had already
\* supplied.
C8_Witness ==
    /\ mix.pc = "done"
    /\ Len(mix.ranked_cities) = 4
    /\ mix.num_cities = 5
    /\ mix.selected = <<CityOf(mix.ranked_cities[1]),
                        CityOf(mix.ranked_cities[4]),
                        CityOf(mix.ranked_cities[2]),
                        CityOf(mix.ranked_cities[3])>>

----------------------------------------------------------------------------
(* Scoring and ranking: scoring.py                                         *)
(*                                                                         *)
(* Scores are floats in the code.  The model computes them in fixed        *)
(* point: a similarity is a whole percentage (rounded down), an average    *)
(* is in hundredths of a percent, a budget fit is in hundredths and a      *)
(* group score in hundredths of a percent.                                 *)

MaxRankUsers == 2
MaxRegionCities == 3

\* activity_keys, in the order of the vectors.
activity_keys ==
    <<"adventure", "culture", "food", "nightlife", "beach", "nature",
      "shopping">>

AccommodationTiers == {"budget", "mid-range", "luxury"}

\* The participants the ranking is drawn from: activity ratings 1..5 in
\* the order of activity_keys, a budget range and an accommodation tier.
UserProfiles ==
    {[activities |-> <<5, 2, 3, 1, 1, 5, 1>>,
      budget |-> [min |-> 5000, max |-> 10000],
      accommodation |-> "budget"],
     [activities |-> <<1, 5, 4, 2, 1, 2, 4>>,
      budget |-> [min |-> 10000, max |-> 20000],
      accommodation |-> "luxury"],
     [activities |-> <<3, 3, 3, 3, 3, 3, 3>>,
      budget |-> [min |-> 20000, max |-> 50000],
      accommodation |-> "mid-range"]}

\* The city entries of the reference data: activity affinities 0..5, daily
\* cost per tier (always with a mid-range entry) and, optionally,
\* typical_days.
CityProfiles ==
    {[activities |-> <<1, 5, 4, 2, 0, 1, 4>>,
      avg_daily_cost |-> ("budget" :> 2000 @@ "mid-range" :> 4000
                            @@ "luxury" :> 9000),
      typical_days |-> 3],
     [activities |-> <<5, 2, 2, 0, 0, 5, 1>>,
      avg_daily_cost |-> ("mid-range" :> 3000)],
     [activities |-> <<0, 0, 0, 0, 0, 0, 0>>,
      avg_daily_cost |-> ("budget" :> 8000 @@ "mid-range" :> 15000
                            @@ "luxury" :> 30000),
      typical_days |-> 2]}

Dot(a, b) == SumSeq([i \in 1..Len(activity_keys) |-> a[i] * b[i]])

\* cosine_similarity(user_vector, city_vector) * 100, in whole percents
\* rounded down (the value is irrational in general): sklearn gives 0 for
\* a vector of norm 0.
calculate_activity_similarity(user_activities, city_activities) ==
    LET dot == Dot(user_activities, city_activities)
        norms2 == Dot(user_activities, user_activities)
                    * Dot(city_activities, city_activities)
    IN  IF norms2 = 0
        THEN 0
        ELSE CHOOSE pct \in 0..100 :
                /\ pct * pct * norms2 <= 10000 * dot * dot
                /\ (pct + 1) * (pct + 1) * norms2 > 10000 * dot * dot

Count(prefs, x) == Cardinality({i \in 1..Len(prefs) : prefs[i] = x})

\* max(set(accommodation_prefs), key=accommodation_prefs.count): the first
\* tier with the highest count in the order in which the set is iterated.
MostCommon(accommodation_prefs, set_order) ==
    LET present == SelectSeq(set_order,
                             LAMBDA t : t \in Range(accommodation_prefs))
        k == CHOOSE i \in 1..Len(present) :
                /\ \A j \in 1..Len(present) :
                    Count(accommodation_prefs, present[j])
                        <= Count(accommodation_prefs, present[i])
                /\ \A j \in 1..(i - 1) :
                    Count(accommodation_prefs, present[j])
                        < Count(accommodation_prefs, present[i])
    IN  present[k]

SeqMax(s) == CHOOSE x \in Range(s) : \A y \in Range(s) : y <= x

SeqMin(s) == CHOOSE x \in Range(s) : \A y \in Range(s) : x <= y

calculate_budget_fit_StrictThreshold(users_data, city_data, set_order) ==
    LET group_min == SeqMax([i \in 1..Len(users_data) |->
                                users_data[i].budget.min])
        group_max == SeqMin([i \in 1..Len(users_data) |->
                                users_data[i].budget.max])
        most_common_accommodation ==
            MostCommon([i \in 1..Len(users_data) |->
                            users_data[i].accommodation], set_order)
        city_daily_cost ==
            IF most_common_accommodation \in DOMAIN city_data.avg_daily_cost
            THEN city_data.avg_daily_cost[most_common_accommodation]
            ELSE city_data.avg_daily_cost["mid-range"]
        typical_days == IF "typical_days" \in DOMAIN city_data
                        THEN city_data.typical_days
                        ELSE DefaultTypicalDays
        city_total_cost == city_daily_cost * typical_days
    IN  IF group_min <= city_total_cost /\ city_total_cost <= group_max
        THEN 100
        ELSE IF city_total_cost < group_min
        THEN 95
        ELSE IF 10 * city_total_cost < 12 * group_max
        THEN 80
        ELSE IF 10 * city_total_cost <= 15 * group_max
        THEN 60
        ELSE 40

\* calculate_budget_fit, in hundredths.
calculate_budget_fit(users_data, city_data, set_order) ==
    LET group_min == SeqMax([i \in 1..Len(users_data) |->
                                users_data[i].budget.min])
        group_max == SeqMin([i \in 1..Len(users_data) |->
                                users_data[i].budget.max])
        most_common_accommodation ==
            MostCommon([i \in 1..Len(users_data) |->
                            users_data[i].accommodation], set_order)
        city_daily_cost ==
            IF most_common_accommodation \in DOMAIN city_data.avg_daily_cost
            THEN city_data.avg_daily_cost[most_common_accommodation]
            ELSE city_data.avg_daily_cost["mid-range"]
        typical_days == IF "typical_days" \in DOMAIN city_data
                        THEN city_data.typical_days
                        ELSE DefaultTypicalDays
        city_total_cost == city_daily_cost * typical_days
    IN  IF group_min <= city_total_cost /\ city_total_cost <= group_max
        THEN 100
        ELSE IF city_total_cost < group_min
        THEN 95
        ELSE IF 10 * city_total_cost <= 12 * group_max
        THEN 80
        ELSE IF 10 * city_total_cost <= 15 * group_max
        THEN 60
        ELSE 40

\* calculate_group_city_score: np.mean of the similarities times the
\* budget fit.
calculate_group_city_score(users_data, city_data, set_order) ==
    LET similarities ==
            [i \in 1..Len(users_data) |->
                calculate_activity_similarity(users_data[i].activities,
                                              city_data.activities)]
        avg_similarity == (100 * SumSeq(similarities)) \div Len(users_data)
        budget_penalty == calculate_budget_fit(users_data, city_data,
                                               set_order)
    IN  (avg_similarity * budget_penalty) \div 100

RECURSIVE InsertByScore_TiesFirst(_, _)
InsertByScore_TiesFirst(sorted, pair) ==
    IF Len(sorted) = 0 THEN <<pair>>
    ELSE IF ScoreOf(Head(sorted)) > ScoreOf(pair)
    THEN <<Head(sorted)>> \o InsertByScore_TiesFirst(Tail(sorted), pair)
    ELSE <<pair>> \o sorted

\* The place of a pair in a list already sorted by score, best first: after
\* every pair that scores at least as much (the sort is stable).
RECURSIVE InsertByScore(_, _)
InsertByScore(sorted, pair) ==
    IF Len(sorted) = 0 THEN <<pair>>
    ELSE IF ScoreOf(Head(sorted)) >= ScoreOf(pair)
    THEN <<Head(sorted)>> \o InsertByScore(Tail(sorted), pair)
    ELSE <<pair>> \o sorted

\* city_scores.sort(key=lambda x: x[1], reverse=True) of the first k pairs.
RECURSIVE SortByScoreDescending(_, _)
SortByScoreDescending(city_scores, k) ==
    IF k = 0 THEN <<>>
    ELSE InsertByScore(SortByScoreDescending(city_scores, k - 1),
                       city_scores[k])

\* cities_dict is the list of the (city_name, city_data) items of the
\* region's dict, in the order of the dict.
rank_cities_for_group(users_data, cities_dict, set_order) ==
    LET city_scores ==
            [i \in 1..Len(cities_dict) |->
                <<cities_dict[i][1],
                  calculate_group_city_score(users_data, cities_dict[i][2],
                                             set_order)>>]
    IN  SortByScoreDescending(city_scores, Len(city_scores))

\* The orders in which a process may iterate a set of tier names (the
\* order depends on the string hashes of the process).
SetOrders == DistinctSeqs(AccommodationTiers, Cardinality(AccommodationTiers))

RECURSIVE SeqsUpTo(_, _)
SeqsUpTo(S, n) ==
    IF n = 0 THEN {<<>>}
    ELSE SeqsUpTo(S, n - 1)
            \cup {Append(t, x) : t \in {u \in SeqsUpTo(S, n - 1) :
                                            Len(u) = n - 1}, x \in S}

\* The regions drawn: the first n city names, each with any of the city
\* profiles.
RegionCitiesDicts ==
    {[i \in 1..Len(profiles) |-> <<CityNames[i], profiles[i]>>] :
        profiles \in SeqsUpTo(CityProfiles, MaxRegionCities)}

InitRank ==
    /\ rank \in {[pc |-> "call", users_data |-> u, cities_dict |-> d,
                  set_order |-> o, city_scores |-> <<>>] :
                    u \in SeqsUpTo(UserProfiles, MaxRankUsers) \ {<<>>},
                    d \in RegionCitiesDicts, o \in SetOrders}
    /\ alloc = Unused
    /\ route = Unused
    /\ mix = Unused
    /\ vote = Unused
    /\ SessionsUnused
    /\ PipelineUnused

RankCities ==
    /\ rank.pc = "call"
    /\ rank' = [rank EXCEPT
            !.pc = "done",
            !.city_scores = rank_cities_for_group(
                rank.users_data, rank.cities_dict, rank.set_order)]
    /\ UNCHANGED <<alloc, route, mix, vote, sessionVars, pipelineVars>>

NextRank == RankCities

SpecRank == InitRank /\ [][NextRank]_vars

\* The place of a city in the region's dict.
DictIndex(city) ==
    CHOOSE i \in 1..Len(rank.cities_dict) : rank.cities_dict[i][1] = city

\* C9: rank_cities_for_group returns every city of the region exactly once,
\* with its group score, ordered by non-increasing score, cities of equal
\* score in the order in which the region lists them.
C9_RankedDescendingStable ==
    rank.pc = "done" =>
        /\ Len(rank.city_scores) = Len(rank.cities_dict)
        /\ \A i \in 1..Len(rank.cities_dict) :
            \E j \in 1..Len(rank.city_scores) :
                /\ CityOf(rank.city_scores[j]) = rank.cities_dict[i][1]
                /\ ScoreOf(rank.city_scores[j]) =
                        calculate_group_city_score(
                            rank.users_data, rank.cities_dict[i][2],
                            rank.set_order)
        /\ \A i, j \in 1..Len(rank.city_scores) :
            i < j =>
                /\ ScoreOf(rank.city_scores[i]) >= ScoreOf(rank.city_scores[j])
                /\ ScoreOf(rank.city_scores[i]) = ScoreOf(rank.city_scores[j])
                    => DictIndex(CityOf(rank.city_scores[i]))
                        < DictIndex(CityOf(rank.city_scores[j]))

\* A region of three cities in which the last city listed scores best and
\* the first two tie.
C9_Witness ==
    /\ rank.pc = "done"
    /\ Len(rank.city_scores) = 3
    /\ NamesOf(rank.city_scores) = <<CityNames[3], CityNames[1], CityNames[2]>>
    /\ ScoreOf(rank.city_scores[1]) > ScoreOf(rank.city_scores[2])
    /\ ScoreOf(rank.city_scores[2]) = ScoreOf(rank.city_scores[3])

----------------------------------------------------------------------------
(* Region vote: consensus.py, select_region                                *)
(*                                                                         *)
(* The vote weights are IEEE 754 doubles.  A double x >= 0 is carried as   *)
(* the integer x * 2^55 in three limbs of 20 bits, <<hi, mid, lo>>; the    *)
(* literals 0.2 and 0.3 and every sum below 64 are whole numbers of that   *)
(* unit.  An addition is the exact sum rounded to 53 significant bits, a   *)
(* tie going to the even neighbour.                                        *)

MaxVoters == 6

Limb == 1048576

FloatZero == <<0, 0, 0>>

\* 1.0 = 2^55 units.
FloatOne == <<32768, 0, 0>>

\* The double nearest to 0.2: 0x1999999999999A * 2^-55.
FloatPointTwo == <<6553, 629145, 629146>>

\* The double nearest to 0.3: 0x13333333333333 * 2^-54.
FloatPointThree == <<9830, 419430, 419430>>

\* The spacing of the doubles around a value whose high limb is hi, in
\* units of 2^-55: 8 in [1, 2), 16 in [2, 4), ...
Ulp(hi) ==
    IF hi >= 1048576 THEN 256
    ELSE IF hi >= 524288 THEN 128
    ELSE IF hi >= 262144 THEN 64
    ELSE IF hi >= 131072 THEN 32
    ELSE IF hi >= 65536 THEN 16
    ELSE IF hi >= 32768 THEN 8
    ELSE IF hi >= 16384 THEN 4
    ELSE IF hi >= 8192 THEN 2
    ELSE 1

\* <<hi, mid, lo>> with the carries of lo and mid taken up.
Normalize(hi, mid, lo) ==
    LET mid2 == mid + lo \div Limb
    IN  <<hi + mid2 \div Limb, mid2 % Limb, lo % Limb>>

\* a + b in double arithmetic.
FloatAdd(a, b) ==
    LET exact == Normalize(a[1] + b[1], a[2] + b[2], a[3] + b[3])
        ulp == Ulp(exact[1])
        r == exact[3] % ulp
        up == 2 * r > ulp \/ (2 * r = ulp /\ (exact[3] \div ulp) % 2 = 1)
    IN  Normalize(exact[1], exact[2],
                  exact[3] - r + (IF up THEN ulp ELSE 0))

FloatLess(a, b) ==
    \/ a[1] < b[1]
    \/ a[1] = b[1] /\ a[2] < b[2]
    \/ a[1] = b[1] /\ a[2] = b[2] /\ a[3] < b[3]

HighBudgetThreshold == 40000

Regions == {"Rajasthan", "Kerala"}

\* weight = 1.0, += 0.2 if the dates are flexible, += 0.3 if the budget
\* maximum is above the threshold.
VoteWeight(user) ==
    LET base == FloatOne
        flexed == IF user.preferences.dates.flexible THEN FloatAdd(base, FloatPointTwo)
                  ELSE base
    IN  IF user.preferences.budget.max > HighBudgetThreshold
        THEN FloatAdd(flexed, FloatPointThree)
        ELSE flexed

IndexOfRegion(region_votes, region) ==
    IF \E i \in 1..Len(region_votes) : region_votes[i].region = region
    THEN CHOOSE i \in 1..Len(region_votes) : region_votes[i].region = region
    ELSE 0

\* One iteration of the tally: region_votes is the dict in insertion
\* order, a new region entering at the end with count 0 and weight 0.
TallyVote(region_votes, user) ==
    LET entered == IF IndexOfRegion(region_votes, user.preferences.region) = 0
                   THEN Append(region_votes,
                               [region |-> user.preferences.region, count |-> 0,
                                total_weight |-> FloatZero])
                   ELSE region_votes
        i == IndexOfRegion(entered, user.preferences.region)
    IN  [entered EXCEPT
            ![i].count = @ + 1,
            ![i].total_weight = FloatAdd(@, VoteWeight(user))]

\* region_votes after the first k users.
RECURSIVE Tally(_, _)
Tally(users_data, k) ==
    IF k = 0 THEN <<>>
    ELSE TallyVote(Tally(users_data, k - 1), users_data[k])

\* max(region_votes.items(), key=total_weight)[0]: the first entry of the
\* dict that no entry exceeds.
MaxWeightRegion(region_votes) ==
    LET i == CHOOSE i \in 1..Len(region_votes) :
                /\ \A j \in 1..Len(region_votes) :
                    ~FloatLess(region_votes[i].total_weight,
                               region_votes[j].total_weight)
                /\ \A j \in 1..(i - 1) :
                    FloatLess(region_votes[j].total_weight,
                              region_votes[i].total_weight)
    IN  region_votes[i].region

\* select_region: the region name, and its cities or the KeyError of the
\* lookup in regions_data['regions'].
select_region(users_data, regions) ==
    LET selected_region == MaxWeightRegion(Tally(users_data, Len(users_data)))
    IN  IF selected_region \in DOMAIN regions
        THEN [selected_region |-> selected_region, raised |-> "none",
              region_cities |-> regions[selected_region]]
        ELSE [selected_region |-> selected_region, raised |-> "KeyError",
              region_cities |-> <<>>]

\* The votes drawn: a region, the flexible flag and a budget maximum at or
\* above the threshold.
Voters ==
    {[preferences |-> [region |-> r, dates |-> [flexible |-> f],
                       budget |-> [max |-> b]]] :
        r \in Regions, f \in BOOLEAN,
        b \in {HighBudgetThreshold, HighBudgetThreshold + 5000}}

\* regions_data['regions'], each region with its ordered city names.
RegionsData == [r \in Regions |-> FirstCities(2)]

InitVote ==
    /\ \E n \in 1..MaxVoters : \E u \in [1..n -> Voters] :
            vote = [pc |-> "call", users_data |-> u, regions |-> RegionsData,
                    result |-> [selected_region |-> "", raised |-> "none",
                                region_cities |-> <<>>]]
    /\ alloc = Unused
    /\ route = Unused
    /\ mix = Unused
    /\ rank = Unused
    /\ SessionsUnused
    /\ PipelineUnused

SelectRegion ==
    /\ vote.pc = "call"
    /\ vote' = [vote EXCEPT
            !.pc = "done",
            !.result = select_region(vote.users_data, vote.regions)]
    /\ UNCHANGED <<alloc, route, mix, rank, sessionVars, pipelineVars>>

NextVote == SelectRegion

SpecVote == InitVote /\ [][NextVote]_vars

\* The summed vote weight of a region, in tenths: 10 per vote, + 2 if the
\* voter's dates are flexible, + 3 if the voter's max budget > 40000.
WeightTenths(users_data, region) ==
    SumSeq([i \in 1..Len(users_data) |->
        IF users_data[i].preferences.region # region THEN 0
        ELSE 10 + (IF users_data[i].preferences.dates.flexible THEN 2 ELSE 0)
                + (IF users_data[i].preferences.budget.max > 40000 THEN 3 ELSE 0)])

FirstVoteFor(users_data, region) ==
    CHOOSE i \in 1..Len(users_data) :
        /\ users_data[i].preferences.region = region
        /\ \A j \in 1..(i - 1) : users_data[j].preferences.region # region

\* C10: select_region returns the region whose summed vote weight is
\* highest and, when several regions tie for the highest weight, the one
\* that was voted for first in participant order.
C10_HighestWeightFirstVoted ==
    vote.pc = "done" =>
        LET users_data == vote.users_data
            voted == {users_data[i].preferences.region : i \in 1..Len(users_data)}
            best == {r \in voted :
                        \A o \in voted : WeightTenths(users_data, o)
                                            <= WeightTenths(users_data, r)}
        IN  /\ vote.result.selected_region \in best
            /\ \A r \in best :
                    FirstVoteFor(users_data, vote.result.selected_region)
                        <= FirstVoteFor(users_data, r)

----------------------------------------------------------------------------
(* Itinerary options: consensus.py, generate_itinerary_options             *)
(*                                                                         *)
(* The target city count (steps 4 and 5 of the function).                  *)

EarlierUnused ==
    /\ alloc = Unused
    /\ route = Unused
    /\ mix = Unused
    /\ rank = Unused
    /\ vote = Unused
    /\ SessionsUnused

earlierVars == <<alloc, route, mix, rank, vote, sessionVars>>

MaxDurationUsers == 3
MinDuration == 2
MaxDuration == 9
MaxCountRanked == 5

\* The place of x in an ascending list.
RECURSIVE InsertAscending(_, _)
InsertAscending(sorted, x) ==
    IF Len(sorted) = 0 THEN <<x>>
    ELSE IF Head(sorted) <= x
    THEN <<Head(sorted)>> \o InsertAscending(Tail(sorted), x)
    ELSE <<x>> \o sorted

RECURSIVE SortAscending(_, _)
SortAscending(s, k) ==
    IF k = 0 THEN <<>>
    ELSE InsertAscending(SortAscending(s, k - 1), s[k])

\* Twice np.median(durations): the middle element of the sorted list, or
\* the mean of the two middle elements of a list of even length.
Median2(durations) ==
    LET n == Len(durations)
        sorted == SortAscending(durations, n)
    IN  IF n % 2 = 1
        THEN 2 * sorted[(n + 1) \div 2]
        ELSE sorted[n \div 2] + sorted[n \div 2 + 1]

\* avg_duration = int(np.median(durations))
AvgDuration(durations) == IntTrunc(Median2(durations), 2)

\* Step 5 before the cap.
TargetCityCount(avg_duration) ==
    IF avg_duration <= 4 THEN 2
    ELSE IF avg_duration <= 7 THEN 3
    ELSE 4

\* num_cities = min(num_cities, len(ranked_cities))
NumCities(avg_duration, ranked_len) ==
    Min(TargetCityCount(avg_duration), ranked_len)

InitCount ==
    /\ \E n \in 1..MaxDurationUsers :
       \E d \in [1..n -> MinDuration..MaxDuration] :
       \E k \in 0..MaxCountRanked :
            count = [pc |-> "call", durations |-> d, ranked_len |-> k,
                     avg_duration |-> 0, num_cities |-> 0]
    /\ EarlierUnused
    /\ SelectionUnused
    /\ run = Unused
    /\ loaded = Unused
    /\ compat = Unused
    /\ fit = Unused

DeriveCityCount ==
    /\ count.pc = "call"
    /\ count' = [count EXCEPT
            !.pc = "done",
            !.avg_duration = AvgDuration(count.durations),
            !.num_cities = NumCities(AvgDuration(count.durations),
                                     count.ranked_len)]
    /\ UNCHANGED <<earlierVars, run, loaded, compat, fit, selectionVars>>

NextCount == DeriveCityCount

SpecCount == InitCount /\ [][NextCount]_vars

\* C11: the target city count equals min(t, number of ranked cities),
\* where t is 2 when the median of the requested durations is <= 4, 3 when
\* it is <= 7 and 4 when it is > 7, the median of an even-sized group being
\* the mean of its two middle durations.
C11_CountFollowsMedian ==
    count.pc = "done" =>
        LET median2 == Median2(count.durations)
            t == IF median2 <= 2 * 4 THEN 2
                 ELSE IF median2 <= 2 * 7 THEN 3
                 ELSE 4
        IN  count.num_cities = Min(t, count.ranked_len)

----------------------------------------------------------------------------
(* Reference data: utils/data_handler.py, load_regions                     *)
(*                                                                         *)
(* The regions file is absent, holds text that is not JSON, holds bytes    *)
(* that are not UTF-8, or holds a document region -> city names.           *)

MaxLoadCities == 2

LoadRegionNames == Regions \cup {"Goa"}

RegionDocuments ==
    {[regions |-> r] :
        r \in UNION {[S -> {FirstCities(k) : k \in 0..MaxLoadCities}] :
                        S \in SUBSET LoadRegionNames}}

RegionFiles ==
    {[kind |-> "absent"], [kind |-> "invalid_json"],
     [kind |-> "invalid_utf8"]}
        \cup {[kind |-> "valid", document |-> d] : d \in RegionDocuments}

\* {'regions': {}}
EmptyRegions == [regions |-> <<>>]

Returned(value) == [raised |-> "none", value |-> value]

Raised(exception) == [raised |-> exception]

\* The exception of open() or json.load(), if any.
LoadFailure(file) ==
    CASE file.kind = "absent" -> "FileNotFoundError"
      [] file.kind = "invalid_json" -> "JSONDecodeError"
      [] file.kind = "invalid_utf8" -> "UnicodeDecodeError"
      [] OTHER -> "none"

\* The except clauses of load_regions: FileExistsError and JSONDecodeError.
CaughtByLoadRegions == {"FileExistsError", "JSONDecodeError"}

load_regions(file) ==
    LET failure == LoadFailure(file)
    IN  IF failure = "none" THEN Returned(file.document)
        ELSE IF failure \in CaughtByLoadRegions THEN Returned(EmptyRegions)
        ELSE Raised(failure)

InitLoad ==
    /\ \E f \in RegionFiles :
            loaded = [pc |-> "call", file |-> f, result |-> Raised("none")]
    /\ EarlierUnused
    /\ SelectionUnused
    /\ count = Unused
    /\ run = Unused
    /\ compat = Unused
    /\ fit = Unused

LoadRegions ==
    /\ loaded.pc = "call"
    /\ loaded' = [loaded EXCEPT
            !.pc = "done",
            !.result = load_regions(loaded.file)]
    /\ UNCHANGED <<earlierVars, count, run, compat, fit, selectionVars>>

NextLoad == LoadRegions

SpecLoad == InitLoad /\ [][NextLoad]_vars

\* C15: load_regions returns the empty region set {'regions': {}} and does
\* not raise, both when the regions file is absent and when it cannot be
\* parsed.
C15_AbsentOrUnparsableGivesEmpty ==
    (loaded.pc = "done" /\ loaded.file.kind \in {"absent", "invalid_json"})
        => loaded.result = Returned(EmptyRegions)

----------------------------------------------------------------------------
(* Group compatibility: scoring.py, calculate_group_compatibility          *)
(*                                                                         *)
(* A participant is the record the form stores: user.preferences with      *)
(* region, dates, budget, duration, activities and accommodation.  The     *)
(* score is returned in tenths (round(x, 1)).                              *)

MaxCompatUsers == 3

Participant(profile, region, flexible, duration) ==
    [preferences |->
        [region |-> region,
         dates |-> [flexible |-> flexible],
         budget |-> profile.budget,
         duration |-> duration,
         activities |-> profile.activities,
         accommodation |-> profile.accommodation]]

\* user['preferences'] of every participant.
Preferences(users_data) ==
    [i \in 1..Len(users_data) |-> users_data[i].preferences]

\* The pairs (i, j), i < j, of the double loop.
UserPairs(users_data) ==
    {pr \in (1..Len(users_data)) \X (1..Len(users_data)) : pr[1] < pr[2]}

RECURSIVE SumOver(_, _)
SumOver(S, f) ==
    IF S = {} THEN 0
    ELSE LET x == CHOOSE y \in S : TRUE
         IN  f[x] + SumOver(S \ {x}, f)

\* calculate_group_compatibility for a non-empty group whose budget
\* minimums are positive, in tenths: round(0.5 * activities + 0.3 * budget
\* + 0.2 * dates, 1) as one fraction.
CompatibilityTenths(users_data) ==
    LET prefs == Preferences(users_data)
        n == Len(users_data)
        pairs == UserPairs(users_data)
        sims == [pr \in pairs |->
                    calculate_activity_similarity(prefs[pr[1]].activities,
                                                  prefs[pr[2]].activities)]
        \* avg_activity_compatibility = act_num / act_den
        act_num == IF pairs = {} THEN 50 ELSE SumOver(pairs, sims)
        act_den == IF pairs = {} THEN 1 ELSE Cardinality(pairs)
        group_min == SeqMax([i \in 1..n |-> prefs[i].budget.min])
        group_max == SeqMin([i \in 1..n |-> prefs[i].budget.max])
        \* budget_compatibility = bud_num / bud_den: 100, or
        \* max(0, 100 - (group_min - group_max) / group_min * 100)
        bud_num == IF group_max >= group_min THEN 100
                   ELSE Max(0, 100 * group_max)
        bud_den == IF group_max >= group_min THEN 1 ELSE group_min
        flexible_count ==
            Cardinality({i \in 1..n : prefs[i].dates.flexible})
    IN  RoundHalfEven(5 * act_num * bud_den * n
                        + 3 * bud_num * act_den * n
                        + 2 * 100 * flexible_count * act_den * bud_den,
                      act_den * bud_den * n)

calculate_group_compatibility(users_data) ==
    IF Len(users_data) = 0
    THEN Raised("ValueError")
    ELSE Returned(CompatibilityTenths(users_data))

CompatParticipants ==
    {Participant(p, "Rajasthan", f, 5) : p \in UserProfiles, f \in BOOLEAN}

InitCompat ==
    /\ \E n \in 0..MaxCompatUsers :
       \E u \in [1..n -> CompatParticipants] :
            compat = [pc |-> "call", users_data |-> u,
                      result |-> Raised("none")]
    /\ EarlierUnused
    /\ SelectionUnused
    /\ count = Unused
    /\ run = Unused
    /\ loaded = Unused
    /\ fit = Unused

GroupCompatibility ==
    /\ compat.pc = "call"
    /\ compat' = [compat EXCEPT
            !.pc = "done",
            !.result = calculate_group_compatibility(compat.users_data)]
    /\ UNCHANGED <<earlierVars, count, run, loaded, fit, selectionVars>>

NextCompat == GroupCompatibility

SpecCompat == InitCompat /\ [][NextCompat]_vars

\* C16: for an empty participant list, calculate_group_compatibility
\* returns the neutral midpoint value 50 (500 tenths) and neither raises
\* nor divides by zero.
C16_EmptyGroupGivesMidpoint ==
    (compat.pc = "done" /\ Len(compat.users_data) = 0)
        => compat.result = Returned(500)

----------------------------------------------------------------------------
(* Route optimization on lists of any length: optimizer.py, optimize_route *)
(*                                                                         *)
(* The search loop is followed one permutation at a time: route.k counts   *)
(* the permutations tried and route.best is (best_route, best_distance).   *)

MaxLongRoute == 8

AllCityPairs == {{a, b} : a, b \in Range(CityNames)}

CityIndex(city) == CHOOSE i \in 1..Len(CityNames) : CityNames[i] = city

\* Cities along one road, neighbours step apart.
LineDistances(step) ==
    [pr \in AllCityPairs |->
        LET a == CHOOSE c \in pr : TRUE
            b == CHOOSE c \in pr : pr = {a, c}
        IN  step * (Max(CityIndex(a), CityIndex(b))
                        - Min(CityIndex(a), CityIndex(b)))]

RECURSIVE Factorial(_)
Factorial(n) == IF n = 0 THEN 1 ELSE n * Factorial(n - 1)

\* The permutation that itertools.permutations(s) yields after k others.
RECURSIVE NthPermutation(_, _)
NthPermutation(s, k) ==
    IF Len(s) = 0 THEN <<>>
    ELSE LET block == Factorial(Len(s) - 1)
             i == k \div block + 1
         IN  <<s[i]>> \o NthPermutation(RemoveAt(s, i), k % block)

NoBest == [route |-> <<>>, distance |-> Infinity]

InitRouteLong ==
    /\ \E n \in 0..MaxLongRoute : \E step \in 1..MaxDist :
            route = [pc |-> "call", cities_list |-> FirstCities(n),
                     distances |-> LineDistances(step),
                     k |-> 0, best |-> NoBest,
                     result |-> [route |-> <<>>, total_distance |-> 0,
                                 distance_matrix |-> <<>>]]
    /\ alloc = Unused
    /\ mix = Unused
    /\ rank = Unused
    /\ vote = Unused
    /\ SessionsUnused
    /\ PipelineUnused

\* Lines 90-103: a list of at most two cities is returned as it is, any
\* longer list enters the loop over its permutations.
RouteEnter ==
    /\ route.pc = "call"
    /\ route' = IF Len(route.cities_list) <= 2
                THEN [route EXCEPT
                        !.pc = "done",
                        !.result = optimize_route(route.cities_list,
                                                  route.distances)]
                ELSE [route EXCEPT !.pc = "search"]
    /\ UNCHANGED <<alloc, mix, rank, vote, sessionVars, pipelineVars>>

\* Lines 106-112: one iteration of the loop.
RouteTry ==
    /\ route.pc = "search"
    /\ route.k < Factorial(Len(route.cities_list))
    /\ route' = [route EXCEPT
            !.k = @ + 1,
            !.best = RouteStep(@, NthPermutation(route.cities_list, route.k),
                               route.distances)]
    /\ UNCHANGED <<alloc, mix, rank, vote, sessionVars, pipelineVars>>

\* Lines 114-128: the loop is exhausted.
RouteReturn ==
    /\ route.pc = "search"
    /\ route.k = Factorial(Len(route.cities_list))
    /\ route' = [route EXCEPT
            !.pc = "done",
            !.result = [route |-> route.best.route,
                        total_distance |-> RoundTenths(route.best.distance),
                        distance_matrix |->
                            DistanceMatrix(route.best.route, route.distances)]]
    /\ UNCHANGED <<alloc, mix, rank, vote, sessionVars, pipelineVars>>

NextRouteLong == RouteEnter \/ RouteTry \/ RouteReturn

SpecRouteLong == InitRouteLong /\ [][NextRouteLong]_vars

\* C17: optimize_route called with more than 7 cities rejects the input or
\* truncates it to at most 7 cities; it never enumerates the permutations
\* of a list longer than 7.
C17_OversizedInputNotSearched ==
    Len(route.cities_list) > 7 =>
        /\ route.pc # "search"
        /\ route.pc = "done" => Len(route.result.route) <= 7

----------------------------------------------------------------------------
(* Dominant tier, budget fit and trip cost: scoring.py,                    *)
(* calculate_budget_fit, and consensus.py, estimate_trip_cost              *)
(*                                                                         *)
(* Both functions take the dominant accommodation tier as                  *)
(* max(set(accommodation_prefs), key=accommodation_prefs.count), which     *)
(* depends on the order in which the set is iterated (fit.set_order).      *)

MaxFitUsers == 3
MaxFitDays == 2

AccommodationPrefs(users_data) ==
    [i \in 1..Len(users_data) |-> users_data[i].preferences.accommodation]

\* The daily costs of the cities drawn for the fit, chosen around the
\* thresholds of the group ranges of UserProfiles.
FitDailyCosts ==
    {2000, 2500, 5000, 5001, 6000, 6001, 7500, 7501, 10000, 12000, 12001,
     15000, 15001, 25000, 30001, 40000}

NoActivities == [i \in 1..Len(activity_keys) |-> 0]

\* City entries with a cost for every tier, or for mid-range only, and
\* with or without typical_days.
FitCities ==
    {[activities |-> NoActivities,
      avg_daily_cost |-> ("budget" :> c @@ "mid-range" :> c + 1000
                            @@ "luxury" :> 2 * c)] : c \in FitDailyCosts}
    \cup {[activities |-> NoActivities,
           avg_daily_cost |-> ("mid-range" :> c),
           typical_days |-> 1] : c \in FitDailyCosts}

FitParticipants ==
    {Participant(p, "Rajasthan", FALSE, 5) : p \in UserProfiles}

ExtraCostPerDay == 1500 + 500
TransitionCost == 2000
DefaultDailyCost == 3000

\* cities_database.get(city, {}).get('avg_daily_cost', {}).get(tier, 3000)
DailyCostOf(cities_database, city, tier) ==
    IF city \in DOMAIN cities_database
            /\ tier \in DOMAIN cities_database[city].avg_daily_cost
    THEN cities_database[city].avg_daily_cost[tier]
    ELSE DefaultDailyCost

\* estimate_trip_cost: day_allocation is the dict city -> days and
\* cities_database the dict city -> city entry.
estimate_trip_cost(users_data, selected_cities, day_allocation, cities_database, set_order) ==
    LET most_common == MostCommon(AccommodationPrefs(users_data), set_order)
        per_city == [c \in DOMAIN day_allocation |->
                        (DailyCostOf(cities_database, c, most_common)
                            + ExtraCostPerDay) * day_allocation[c]]
    IN  SumOver(DOMAIN day_allocation, per_city)
            + (Len(selected_cities) - 1) * TransitionCost

\* The calls drawn for estimate_trip_cost: one or two cities, each with
\* its days, the database knowing any subset of them.
CostCalls ==
    {[selected_cities |-> FirstCities(n), day_allocation |-> a,
      cities_database |-> db] :
        n \in 1..2,
        a \in UNION {[Range(FirstCities(k)) -> 1..MaxFitDays] : k \in 1..2},
        db \in UNION {[S -> CityProfiles] : S \in SUBSET Range(FirstCities(2))}}

InitFit ==
    /\ \E n \in 1..MaxFitUsers : \E u \in [1..n -> FitParticipants] :
       \E o \in SetOrders :
            \/ \E c \in FitCities :
                fit = [pc |-> "call", op |-> "calculate_budget_fit",
                       users_data |-> u, set_order |-> o, city_data |-> c,
                       most_common |-> "", result |-> 0]
            \/ \E c \in CostCalls :
                /\ DOMAIN c.day_allocation = Range(c.selected_cities)
                /\ fit = [pc |-> "call", op |-> "estimate_trip_cost",
                          users_data |-> u, set_order |-> o,
                          selected_cities |-> c.selected_cities,
                          day_allocation |-> c.day_allocation,
                          cities_database |-> c.cities_database,
                          most_common |-> "", result |-> 0]
    /\ EarlierUnused
    /\ SelectionUnused
    /\ count = Unused
    /\ run = Unused
    /\ loaded = Unused
    /\ compat = Unused

CalculateBudgetFit ==
    /\ fit.pc = "call"
    /\ fit.op = "calculate_budget_fit"
    /\ fit' = [fit EXCEPT
            !.pc = "done",
            !.most_common = MostCommon(AccommodationPrefs(fit.users_data),
                                       fit.set_order),
            !.result = calculate_budget_fit(Preferences(fit.users_data),
                                            fit.city_data, fit.set_order)]
    /\ UNCHANGED <<earlierVars, count, run, loaded, compat, selectionVars>>

EstimateTripCost ==
    /\ fit.pc = "call"
    /\ fit.op = "estimate_trip_cost"
    /\ fit' = [fit EXCEPT
            !.pc = "done",
            !.most_common = MostCommon(AccommodationPrefs(fit.users_data),
                                       fit.set_order),
            !.result = estimate_trip_cost(
                fit.users_data, fit.selected_cities, fit.day_allocation,
                fit.cities_database, fit.set_order)]
    /\ UNCHANGED <<earlierVars, count, run, loaded, compat, selectionVars>>

NextFit == CalculateBudgetFit \/ EstimateTripCost

SpecFit == InitFit /\ [][NextFit]_vars

\* The tiers with the most votes.
TopTiers(prefs) ==
    {t \in Range(prefs) : \A o \in Range(prefs) : Count(prefs, o) <= Count(prefs, t)}

\* The tier with the most votes that occurs first in participant order.
FirstTopTier(prefs) ==
    prefs[CHOOSE i \in 1..Len(prefs) :
            /\ prefs[i] \in TopTiers(prefs)
            /\ \A j \in 1..(i - 1) : prefs[j] \notin TopTiers(prefs)]

\* C19: when two or more accommodation tiers are tied for the most votes,
\* the dominant tier used by calculate_budget_fit and by estimate_trip_cost
\* is the tied tier that occurs first in participant order.
C19_TieGoesToFirstParticipant ==
    (fit.pc = "done"
        /\ Cardinality(TopTiers(AccommodationPrefs(fit.users_data))) >= 2)
        => fit.most_common = FirstTopTier(AccommodationPrefs(fit.users_data))

\* The group range and the city cost of a calculate_budget_fit call.
FitGroupMin ==
    CHOOSE m \in {fit.users_data[i].preferences.budget.min :
                    i \in 1..Len(fit.users_data)} :
        \A i \in 1..Len(fit.users_data) :
            fit.users_data[i].preferences.budget.min <= m

FitGroupMax ==
    CHOOSE m \in {fit.users_data[i].preferences.budget.max :
                    i \in 1..Len(fit.users_data)} :
        \A i \in 1..Len(fit.users_data) :
            m <= fit.users_data[i].preferences.budget.max

FitCityCost ==
    LET costs == fit.city_data.avg_daily_cost
        daily == IF fit.most_common \in DOMAIN costs
                 THEN costs[fit.most_common]
                 ELSE costs["mid-range"]
        days == IF "typical_days" \in DOMAIN fit.city_data
                THEN fit.city_data.typical_days
                ELSE 2
    IN  daily * days

----------------------------------------------------------------------------
(* Budget selection, travel plan and satisfaction: the remaining parts of  *)
(* an option (consensus.py, optimizer.py, scoring.py)                      *)
(*                                                                         *)
(* A region's cities are the items of its dict, <<city_name, city_data>>,  *)
(* in the order of the dict.  Distances are in thirtieths of a kilometre,  *)
(* scores in hundredths of a percent, hours and kilometres in tenths.      *)

\* The dict as a function city_name -> city_data.
CitiesDatabase(region_cities) ==
    [c \in {region_cities[i][1] : i \in 1..Len(region_cities)} |->
        region_cities[CHOOSE i \in 1..Len(region_cities) :
                        region_cities[i][1] = c][2]]

\* city_name -> typical_days, for the cities that state it.
TypicalDaysDatabase(region_cities) ==
    LET db == CitiesDatabase(region_cities)
    IN  [c \in {d \in DOMAIN db : "typical_days" \in DOMAIN db[d]} |->
            db[c].typical_days]

DefaultMidRangeCost == 5000

\* score > 60
BudgetScoreThreshold == 60 * 100

\* cities_database.get(city_name, {}): avg_daily_cost.get('mid-range',
\* 5000) * typical_days
MidRangeTotalCost(cities_database, city_name) ==
    LET known == city_name \in DOMAIN cities_database
        avg_cost ==
            IF known /\ "mid-range"
                            \in DOMAIN cities_database[city_name].avg_daily_cost
            THEN cities_database[city_name].avg_daily_cost["mid-range"]
            ELSE DefaultMidRangeCost
        typical_days ==
            IF known /\ "typical_days" \in DOMAIN cities_database[city_name]
            THEN cities_database[city_name].typical_days
            ELSE DefaultTypicalDays
    IN  avg_cost * typical_days

\* The place of a (city, score, total_cost) entry in a list sorted by
\* cost, cheapest first: after every entry that costs no more.
RECURSIVE InsertByCost(_, _)
InsertByCost(sorted, entry) ==
    IF Len(sorted) = 0 THEN <<entry>>
    ELSE IF Head(sorted)[3] <= entry[3]
    THEN <<Head(sorted)>> \o InsertByCost(Tail(sorted), entry)
    ELSE <<entry>> \o sorted

\* The entries left in rank order, as if city_costs were never sorted.
SortByCost_RankOrder(city_costs, k) == SubSeq(city_costs, 1, k)

RECURSIVE SortByCost(_, _)
SortByCost(city_costs, k) ==
    IF k = 0 THEN <<>>
    ELSE InsertByCost(SortByCost(city_costs, k - 1), city_costs[k])

\* The selection without the slice [:num_cities] of the cheapest cities.
select_budget_friendly_cities_NoSlice(ranked_cities, num_cities, cities_database) ==
    LET city_costs ==
            SelectSeq([i \in 1..Len(ranked_cities) |->
                            <<CityOf(ranked_cities[i]),
                              ScoreOf(ranked_cities[i]),
                              MidRangeTotalCost(cities_database,
                                                CityOf(ranked_cities[i]))>>],
                      LAMBDA e : e[2] > BudgetScoreThreshold)
        sorted == SortByCost(city_costs, Len(city_costs))
        selected == [i \in 1..Len(sorted) |-> sorted[i][1]]
    IN  IF Len(selected) < num_cities
        THEN PadFromRanked(selected, ranked_cities, num_cities)
        ELSE selected

\* The cities scoring above 60, cheapest first (mid-range cost of the
\* typical stay), cut to num_cities and padded from the ranking.
select_budget_friendly_cities(ranked_cities, num_cities, cities_database) ==
    LET city_costs ==
            SelectSeq([i \in 1..Len(ranked_cities) |->
                            <<CityOf(ranked_cities[i]),
                              ScoreOf(ranked_cities[i]),
                              MidRangeTotalCost(cities_database,
                                                CityOf(ranked_cities[i]))>>],
                      LAMBDA e : e[2] > BudgetScoreThreshold)
        sorted == SortByCost(city_costs, Len(city_costs))
        cheapest == SubSeq(sorted, 1, Min(num_cities, Len(sorted)))
        selected == [i \in 1..Len(cheapest) |-> cheapest[i][1]]
    IN  IF Len(selected) < num_cities
        THEN PadFromRanked(selected, ranked_cities, num_cities)
        ELSE selected

\* Kilometres in thirtieths.
Km(x) == 30 * x

\* estimate_travel_time, in tenths of an hour.
estimate_travel_time(distance_km) ==
    IF distance_km > Km(500) THEN 20
    ELSE IF distance_km > Km(200)
    THEN RoundHalfEven(10 * distance_km, Km(80))
    ELSE RoundHalfEven(10 * distance_km, Km(60))

get_recommended_transport(distance_km) ==
    IF distance_km < Km(100) THEN "Car/Taxi"
    ELSE IF distance_km < Km(300) THEN "Car or Train"
    ELSE IF distance_km < Km(500) THEN "Train"
    ELSE "Flight"

\* The cost of a segment: 4000 by flight, 1500 when the transport names a
\* train, else int(distance * 10).
SegmentCost(distance_km, transport) ==
    IF transport = "Flight" THEN 4000
    ELSE IF transport \in {"Train", "Car or Train"} THEN 1500
    ELSE IntTrunc(10 * distance_km, Km(1))

create_travel_plan(cities_order, distances) ==
    [i \in 1..(Len(cities_order) - 1) |->
        LET distance == calculate_distance(distances, cities_order[i],
                                           cities_order[i + 1])
            transport == get_recommended_transport(distance)
        IN  [from |-> cities_order[i],
             to |-> cities_order[i + 1],
             distance_km |-> RoundTenths(distance),
             travel_time_hours |-> estimate_travel_time(distance),
             transport |-> transport,
             cost_estimate |-> SegmentCost(distance, transport)]]

NeutralSatisfaction == 50 * 10

\* calculate_individual_satisfaction, in tenths: cities that the database
\* does not know, or knows with an empty entry, are skipped.
calculate_individual_satisfaction(user_data, selected_cities, cities_database) ==
    LET known == SelectSeq(selected_cities,
                           LAMBDA c : c \in DOMAIN cities_database)
        satisfactions ==
            [i \in 1..Len(known) |->
                calculate_activity_similarity(
                    user_data.preferences.activities,
                    cities_database[known[i]].activities)]
    IN  IF Len(satisfactions) = 0 THEN NeutralSatisfaction
        ELSE RoundHalfEven(10 * SumSeq(satisfactions), Len(satisfactions))

\* round(np.mean(scores), 1) in tenths, of the non-empty list of scores.
GroupScore(scores) == RoundHalfEven(SumSeq(scores), 10 * Len(scores))

----------------------------------------------------------------------------
(* The run: consensus.py, generate_itinerary_options, with the narrative   *)
(* of generators/itinerary.py                                              *)
(*                                                                         *)
(* The three options are built in one step (lines 93-201); the narrative   *)
(* loop of generate_full_trip_itinerary is followed one city at a time,    *)
(* the service answering each call with a text or with an exception; the   *)
(* last step attaches the narrative and the notes (lines 214-229).  The    *)
(* record of the run keeps the arguments of the call, the lists handed to  *)
(* optimize_route (route_calls) and the cities the service was called for  *)
(* (service_calls, failed).                                                *)

MaxRunUsers == 2
MaxRunCities == 8

\* The reference data of the run: Rajasthan with the first n cities of
\* CityNames, Kerala with one city.  The cities after the sixth repeat the
\* entry of the sixth.
RunCityData ==
    <<[activities |-> <<3, 3, 3, 3, 3, 3, 3>>,
       avg_daily_cost |-> ("budget" :> 2500 @@ "mid-range" :> 5000
                            @@ "luxury" :> 10000),
       typical_days |-> 2],
      [activities |-> <<0, 0, 0, 0, 5, 0, 0>>,
       avg_daily_cost |-> ("budget" :> 2000 @@ "mid-range" :> 4000
                            @@ "luxury" :> 9000),
       typical_days |-> 3],
      [activities |-> <<4, 3, 3, 2, 1, 4, 2>>,
       avg_daily_cost |-> ("budget" :> 3000 @@ "mid-range" :> 6000
                            @@ "luxury" :> 12000)],
      [activities |-> <<5, 2, 2, 0, 0, 5, 1>>,
       avg_daily_cost |-> ("mid-range" :> 3000)],
      [activities |-> <<2, 4, 4, 3, 1, 2, 4>>,
       avg_daily_cost |-> ("budget" :> 1500 @@ "mid-range" :> 3500
                            @@ "luxury" :> 8000),
       typical_days |-> 1],
      [activities |-> <<0, 0, 0, 0, 0, 0, 0>>,
       avg_daily_cost |-> ("budget" :> 8000 @@ "mid-range" :> 15000
                            @@ "luxury" :> 30000),
       typical_days |-> 2]>>

RunRegions(n) ==
    [r \in Regions |->
        IF r = "Rajasthan"
        THEN [i \in 1..n |->
                <<CityNames[i], RunCityData[Min(i, Len(RunCityData))]>>]
        ELSE << <<CityNames[Len(CityNames)], RunCityData[1]>> >>]

\* Neighbouring cities are 130 km apart.
RunDistances == LineDistances(Km(130))

RunParticipants ==
    LET budget == CHOOSE p \in UserProfiles : p.accommodation = "budget"
        luxury == CHOOSE p \in UserProfiles : p.accommodation = "luxury"
        mid == CHOOSE p \in UserProfiles : p.accommodation = "mid-range"
    IN  {Participant(budget, "Rajasthan", FALSE, 4),
         Participant(mid, "Rajasthan", TRUE, 8),
         Participant(luxury, "Kerala", TRUE, 5)}

\* allocate_days_to_cities indexes selected_cities[-1]: an empty list with
\* at least one available day raises IndexError.
AllocateRaisesIndexError(selected_cities, total_days) ==
    Len(selected_cities) = 0 /\ Avail2(selected_cities, total_days) >= 2

\* The scores of the ranked cities that are in the list, in ranked order.
ScoresOf(ranked_cities, cities) ==
    LET picked == SelectSeq(ranked_cities,
                            LAMBDA pair : CityOf(pair) \in Range(cities))
    IN  [i \in 1..Len(picked) |-> ScoreOf(picked[i])]

\* One option of the results: the route, the travel plan, the days, the
\* cost and the scores of the cities selected for it.
BuildOption(option_id, name, cities_raw, ranked_cities, users_data, avg_duration, region_cities, set_order) ==
    LET optimized == optimize_route(cities_raw, RunDistances)
        cities == optimized.route
        cities_database == CitiesDatabase(region_cities)
        allocation == allocate_days_to_cities(
                        cities, avg_duration,
                        TypicalDaysDatabase(region_cities))
    IN  [option_id |-> option_id,
         name |-> name,
         cities |-> cities,
         day_allocation |-> allocation,
         total_days |-> avg_duration,
         total_distance_km |-> optimized.total_distance,
         travel_plan |-> create_travel_plan(cities, RunDistances),
         estimated_cost_per_person |->
            estimate_trip_cost(users_data, cities, allocation,
                               cities_database, set_order),
         group_score |-> GroupScore(ScoresOf(ranked_cities, cities)),
         individual_scores |->
            [u \in 1..Len(users_data) |->
                calculate_individual_satisfaction(
                    users_data[u], cities, cities_database)],
         votes |-> 0]

\* combine_group_preferences: the mean rating of every activity, rounded
\* to one decimal, in tenths.
combine_group_preferences(users_data) ==
    [a \in 1..Len(activity_keys) |->
        RoundHalfEven(
            10 * SumSeq([u \in 1..Len(users_data) |->
                            users_data[u].preferences.activities[a]]),
            Len(users_data))]

\* sorted(group_preferences.items(), key=value, reverse=True)[:3]: the
\* names of the three best-rated activities, equal ratings in key order.
TopActivityNames(group_preferences) ==
    LET pairs == [a \in 1..Len(activity_keys) |->
                    <<activity_keys[a], group_preferences[a]>>]
        sorted == SortByScoreDescending(pairs, Len(pairs))
    IN  [i \in 1..3 |-> sorted[i][1]]

\* Lines 93-113: the region, the ranking, the compatibility and the city
\* count.  The lookup of the selected region may raise KeyError.
RunPlan(users_data, regions, set_order) ==
    LET selection == select_region(users_data, regions)
        region_cities == selection.region_cities
        ranked_cities == rank_cities_for_group(Preferences(users_data),
                                               region_cities, set_order)
        avg_duration ==
            AvgDuration([u \in 1..Len(users_data) |->
                            users_data[u].preferences.duration])
    IN  [raised |-> selection.raised,
         selected_region |-> selection.selected_region,
         region_cities |-> region_cities,
         ranked_cities |-> ranked_cities,
         group_compatibility |-> calculate_group_compatibility(users_data),
         avg_duration |-> avg_duration,
         num_cities |-> NumCities(avg_duration, Len(ranked_cities))]

\* [city[0] for city in ranked_cities[:num_cities]]
TopRanked(ranked_cities, num_cities) ==
    NamesOf(SubSeq(ranked_cities, 1, num_cities))

\* The template of the except branch without its closing note.
FallbackItinerary_NoNote(top_activity_names) ==
    [source |-> "template", failure_note |-> FALSE,
     focus |-> SubSeq(top_activity_names, 1, 2)]

\* The text returned when the call raised: the two-day template that ends
\* with "(Note: Detailed itinerary generation failed. Error: ...)".
FallbackItinerary(top_activity_names) ==
    [source |-> "template", failure_note |-> TRUE,
     focus |-> SubSeq(top_activity_names, 1, 2)]

ServiceOutcomes == {"text", "raises"}

\* The text that generate_city_itinerary returns: the answer of the
\* service, or the template when the call raised.
generate_city_itinerary(outcome, group_preferences) ==
    IF outcome = "text"
    THEN [source |-> "service", failure_note |-> FALSE]
    ELSE FallbackItinerary(TopActivityNames(group_preferences))

\* range(int(current_day), int(current_day + num_days)), current_day being
\* carried as twice its value.
DayNumbers(current_day2, num_days2) ==
    [d \in 1..((current_day2 + num_days2) \div 2 - current_day2 \div 2) |->
        current_day2 \div 2 + d - 1]

\* {'note': 'Detailed itinerary generated for Option 1 only.'}
NarrativeNote == [note |-> "Detailed itinerary generated for Option 1 only."]

\* A loop over the last option only.
NoteOptionIds_LastOnly == {3}

\* The options that get the note (for i in [1, 2]), by option_id.
NoteOptionIds == {2, 3}

\* An assignment that replaces the option by the narrative.
WithDetailedItinerary_Replacing(option, value) ==
    [detailed_itinerary |-> value]

\* results['options'][i]['detailed_itinerary'] = value

WithDetailedItinerary(option, value) ==
    [k \in DOMAIN option \cup {"detailed_itinerary"} |->
        IF k = "detailed_itinerary" THEN value ELSE option[k]]

\* Iteration orders of the set of tiers: with these every tier is the
\* first of its set, and either tier of any pair comes before the other.
RunSetOrders ==
    {<<"budget", "mid-range", "luxury">>,
     <<"mid-range", "luxury", "budget">>,
     <<"luxury", "budget", "mid-range">>}

RunCalls ==
    {[pc |-> "call", users_data |-> u, regions |-> RunRegions(n),
      set_order |-> o] :
        u \in UNION {[1..k -> RunParticipants] : k \in 1..MaxRunUsers},
        n \in 0..MaxRunCities, o \in RunSetOrders}

InitRun ==
    /\ run \in RunCalls
    /\ EarlierUnused
    /\ SelectionUnused
    /\ count = Unused
    /\ loaded = Unused
    /\ compat = Unused
    /\ fit = Unused

\* Lines 115-127: the lists handed to optimize_route for options 1 and 2
\* and the two options built from them.
FirstOptions(plan, users_data, set_order) ==
    LET option1_raw == TopRanked(plan.ranked_cities, plan.num_cities)
        budget_raw == select_budget_friendly_cities(
                        plan.ranked_cities, plan.num_cities,
                        CitiesDatabase(plan.region_cities))
    IN  [option1_raw |-> option1_raw,
         budget_raw |-> budget_raw,
         option1 |-> BuildOption(1, "Optimal Match", option1_raw,
                                 plan.ranked_cities, users_data,
                                 plan.avg_duration, plan.region_cities,
                                 set_order),
         option2 |-> BuildOption(2, "Budget-Friendly", budget_raw,
                                 plan.ranked_cities, users_data,
                                 plan.avg_duration, plan.region_cities,
                                 set_order)]

\* Lines 93-201.  The run raises when the region is unknown or has no
\* city (allocate_days_to_cities on the empty route of option 1).
RunBuildOptions ==
    /\ run.pc = "call"
    /\ \E plan \in {RunPlan(run.users_data, run.regions, run.set_order)} :
        IF plan.raised # "none"
        THEN run' = [pc |-> "raised", raised |-> plan.raised,
                     users_data |-> run.users_data,
                     set_order |-> run.set_order,
                     region_size |-> Len(plan.region_cities),
                     route_calls |-> <<>>]
        ELSE IF AllocateRaisesIndexError(
                    optimize_route(TopRanked(plan.ranked_cities,
                                             plan.num_cities),
                                   RunDistances).route,
                    plan.avg_duration)
        THEN run' = [pc |-> "raised", raised |-> "IndexError",
                     users_data |-> run.users_data,
                     set_order |-> run.set_order,
                     region_size |-> Len(plan.region_cities),
                     route_calls |->
                        <<TopRanked(plan.ranked_cities, plan.num_cities)>>]
        ELSE \E first \in {FirstOptions(plan, run.users_data, run.set_order)},
                shuffled_mid \in Shuffles(MidRanked(plan.ranked_cities)) :
             \E adventurous_raw \in
                    {select_adventurous_mix(plan.ranked_cities,
                                            plan.num_cities, shuffled_mid)} :
                run' = [pc |-> "narrative",
                        users_data |-> run.users_data,
                        set_order |-> run.set_order,
                        num_cities |-> plan.num_cities,
                        region_size |-> Len(plan.region_cities),
                        route_calls |->
                            <<first.option1_raw, first.budget_raw,
                              adventurous_raw>>,
                        results |->
                            [selected_region |-> plan.selected_region,
                             group_compatibility |->
                                plan.group_compatibility.value,
                             options |->
                                <<first.option1, first.option2,
                                  BuildOption(3, "Adventurous Mix",
                                              adventurous_raw,
                                              plan.ranked_cities,
                                              run.users_data,
                                              plan.avg_duration,
                                              plan.region_cities,
                                              run.set_order)>>],
                        group_preferences |->
                            combine_group_preferences(run.users_data),
                        i |-> 0,
                        current_day2 |-> 2,
                        full_itinerary |-> <<>>,
                        service_calls |-> <<>>,
                        failed |-> {}]
    /\ UNCHANGED <<earlierVars, count, loaded, compat, fit, selectionVars>>

\* One iteration of the loop of generate_full_trip_itinerary over the
\* cities of option 1 (itinerary.py:152-199), the service answering or
\* raising (itinerary.py:99-124).
RunNarrativeCity ==
    /\ run.pc = "narrative"
    /\ run.i < Len(run.results.options[1].cities)
    /\ \E outcome \in ServiceOutcomes :
        LET option == run.results.options[1]
            city == option.cities[run.i + 1]
            num_days == option.day_allocation[city]
            city_entry ==
                [kind |-> "city", city_name |-> city, days2 |-> 2 * num_days,
                 day_numbers |-> DayNumbers(run.current_day2, 2 * num_days),
                 itinerary |-> generate_city_itinerary(
                                    outcome, run.group_preferences)]
            after_city2 == run.current_day2 + 2 * num_days
            last == run.i + 1 = Len(option.cities)
            travel_entry ==
                [kind |-> "travel", index |-> run.i + 1, days2 |-> 1,
                 day_numbers |-> <<after_city2 \div 2>>,
                 itinerary |-> option.travel_plan[run.i + 1]]
        IN  run' = [run EXCEPT
                !.i = @ + 1,
                !.service_calls = Append(@, city),
                !.failed = IF outcome = "raises" THEN @ \cup {city} ELSE @,
                !.full_itinerary =
                    IF last THEN Append(@, city_entry)
                    ELSE @ \o <<city_entry, travel_entry>>,
                !.current_day2 =
                    IF last THEN after_city2 ELSE after_city2 + 1]
    /\ UNCHANGED <<earlierVars, count, loaded, compat, fit, selectionVars>>

\* Lines 214 and 224-229: option 1 gets the narrative, the other options
\* the note, and the results are returned.
RunAttach ==
    /\ run.pc = "narrative"
    /\ run.i = Len(run.results.options[1].cities)
    /\ run' = [run EXCEPT
            !.pc = "done",
            !.results.options =
                [k \in 1..Len(@) |->
                    IF k = 1
                    THEN WithDetailedItinerary(@[k], run.full_itinerary)
                    ELSE IF @[k].option_id \in NoteOptionIds
                    THEN WithDetailedItinerary(@[k], NarrativeNote)
                    ELSE @[k]]]
    /\ UNCHANGED <<earlierVars, count, loaded, compat, fit, selectionVars>>

NextRun == RunBuildOptions \/ RunNarrativeCity \/ RunAttach

SpecRun == InitRun /\ [][NextRun]_vars

\* The fields of an option that come from the numeric pipeline.
CoreFields ==
    {"cities", "day_allocation", "total_distance_km", "travel_plan",
     "estimated_cost_per_person"}

\* The entries of a narrative that are about a city.
CityEntries(detailed_itinerary) ==
    {detailed_itinerary[k] : k \in
        {j \in 1..Len(detailed_itinerary) :
            detailed_itinerary[j].kind = "city"}}

\* C12: when the narrative service raised during the run, the detailed
\* itinerary of option 1 carries an explicit failure note (in the text of
\* every city whose call raised), and the option's cities, total distance
\* and estimated cost per person are populated.
C12_ServiceErrorIsMarked ==
    (run.pc = "done" /\ run.failed # {}) =>
        LET option == run.results.options[1]
        IN  /\ "detailed_itinerary" \in DOMAIN option
            /\ \A city \in run.failed :
                \E entry \in CityEntries(option.detailed_itinerary) :
                    /\ entry.city_name = city
                    /\ entry.itinerary.failure_note
            /\ {"cities", "total_distance_km", "estimated_cost_per_person"}
                    \subseteq DOMAIN option
            /\ Len(option.cities) > 0
            /\ option.total_distance_km >= 0
            /\ option.estimated_cost_per_person > 0

\* A completed run of several cities in which the service raised for the
\* first city and answered for another.
C12_Witness ==
    /\ run.pc = "done"
    /\ Len(run.results.options[1].cities) >= 3
    /\ run.results.options[1].cities[1] \in run.failed
    /\ \E city \in Range(run.results.options[1].cities) : city \notin run.failed
    /\ run.results.options[1].total_distance_km > 0

\* The structural part of a returned result.
ResultIsComplete(results) ==
    /\ {"selected_region", "group_compatibility", "options"}
            \subseteq DOMAIN results
    /\ results.selected_region \in Regions
    /\ results.group_compatibility \in 0..1000
    /\ Len(results.options) = 3
    /\ \A k \in 1..3 :
        /\ CoreFields \subseteq DOMAIN results.options[k]
        /\ Len(results.options[k].cities) > 0
        /\ DOMAIN results.options[k].day_allocation
                = Range(results.options[k].cities)
        /\ Len(results.options[k].travel_plan)
                = Len(results.options[k].cities) - 1
        /\ results.options[k].estimated_cost_per_person > 0

\* C13: whatever subset of the narrative calls fails, the run returns a
\* result with the selected region, the group compatibility and exactly
\* three options, each with its route, day allocation, total distance,
\* travel plan and estimated cost.  Once the options are built, every step
\* stays in the narrative or returns, and leaves those fields as they were
\* built: no narrative failure propagates out of the run.
C13_NarrativeFailuresDoNotFailTheRun ==
    /\ [](run.pc = "done" => ResultIsComplete(run.results))
    /\ [](run.pc = "narrative" => ENABLED NextRun)
    /\ [][run.pc = "narrative" =>
            /\ run'.pc \in {"narrative", "done"}
            /\ run'.results.selected_region = run.results.selected_region
            /\ run'.results.group_compatibility
                    = run.results.group_compatibility
            /\ \A k \in 1..3 : \A f \in CoreFields :
                run'.results.options[k][f] = run.results.options[k][f]]_vars

\* A completed run in which some, but not all, narrative calls raised.
C13_Witness ==
    /\ run.pc = "done"
    /\ run.failed # {}
    /\ run.failed # Range(run.service_calls)
    /\ Len(run.service_calls) = 4

\* C14: in a completed run the narrative service was invoked for the
\* cities of option 1 and for nothing else, and options 2 and 3 each carry
\* the note that no narrative was generated for them, whether or not the
\* calls for option 1 succeeded.
C14_NarrativeOnlyForOptimal ==
    /\ run.pc \in {"narrative", "done"} =>
        /\ Len(run.service_calls) <= Len(run.results.options[1].cities)
        /\ \A k \in 1..Len(run.service_calls) :
            run.service_calls[k] = run.results.options[1].cities[k]
    /\ run.pc = "done" =>
        /\ run.service_calls = run.results.options[1].cities
        /\ \A k \in {2, 3} :
            /\ "detailed_itinerary" \in DOMAIN run.results.options[k]
            /\ run.results.options[k].detailed_itinerary = NarrativeNote

\* A completed run in which options 2 and 3 hold cities that option 1
\* does not, and a call for option 1 raised.
C14_Witness ==
    /\ run.pc = "done"
    /\ run.failed # {}
    /\ \A k \in {2, 3} :
        Range(run.results.options[k].cities)
            \ Range(run.results.options[1].cities) # {}

\* The largest target city count (line 112).
MaxTargetCityCount == 4

\* "Brute force for small N (<= 7 cities)", optimizer.py:75.
BruteForceLimit == 7

\* C18: each of the three optimize_route calls of a run receives at most 7
\* cities; in fact at most the target city count, which is at most 4.
C18_RouteCallsAreSmall ==
    /\ run.pc \in {"narrative", "done", "raised"} =>
        \A k \in 1..Len(run.route_calls) :
            /\ Len(run.route_calls[k]) <= BruteForceLimit
            /\ Len(run.route_calls[k]) <= MaxTargetCityCount
    /\ run.pc \in {"narrative", "done"} =>
        /\ Len(run.route_calls) = 3
        /\ run.num_cities <= MaxTargetCityCount
        /\ \A k \in 1..3 : Len(run.route_calls[k]) <= run.num_cities

\* A run over a region of more than 7 cities, whose three calls got 4.
C18_Witness ==
    /\ run.pc = "done"
    /\ run.region_size > BruteForceLimit
    /\ \A k \in 1..3 : Len(run.route_calls[k]) = MaxTargetCityCount

----------------------------------------------------------------------------
(* Travel plan: optimizer.py, create_travel_plan                           *)
(*                                                                         *)
(* The cities of a call lie on a line; the distance of two cities is the   *)
(* difference of their positions, in thirtieths of a kilometre.            *)

MaxPlanCities == 3

\* Positions that put segments on both sides of every threshold of
\* get_recommended_transport and estimate_travel_time, and one segment
\* (50 km and two thirds) whose tenfold distance is no whole number.
PlanPositions ==
    {0, Km(50) + 20, Km(130), Km(300), Km(500), Km(800) + 1}

\* The distance table of the cities placed at the positions.
PositionDistances(cities, position) ==
    [pr \in {{cities[i], cities[j]} : i, j \in 1..Len(cities)} |->
        LET a == CHOOSE i \in 1..Len(cities) : cities[i] \in pr
            b == CHOOSE j \in 1..Len(cities) : pr = {cities[a], cities[j]}
        IN  Max(position[a], position[b]) - Min(position[a], position[b])]

InitPlan ==
    /\ \E n \in 0..MaxPlanCities : \E position \in [1..n -> PlanPositions] :
       \E order \in DistinctSeqs(1..n, n) :
            travel = [pc |-> "call",
                      cities_order |-> [i \in 1..n |-> CityNames[order[i]]],
                      distances |-> PositionDistances(FirstCities(n), position),
                      result |-> <<>>]
    /\ EarlierUnused
    /\ count = Unused
    /\ run = Unused
    /\ loaded = Unused
    /\ compat = Unused
    /\ fit = Unused
    /\ pick = Unused

CreateTravelPlan ==
    /\ travel.pc = "call"
    /\ travel' = [travel EXCEPT
            !.pc = "done",
            !.result = create_travel_plan(travel.cities_order,
                                          travel.distances)]
    /\ UNCHANGED <<earlierVars, count, run, loaded, compat, fit, pick>>

NextPlan == CreateTravelPlan

SpecPlan == InitPlan /\ [][NextPlan]_vars

\* The distance of segment i of the call, in thirtieths of a kilometre.
SegmentDistance(i) ==
    calculate_distance(travel.distances, travel.cities_order[i],
                       travel.cities_order[i + 1])

\* C21: create_travel_plan returns one segment per consecutive pair of the
\* route, in route order, and the cost_estimate of a segment is 4000 when
\* its transport is Flight, 1500 when it is Train, and otherwise (Car/Taxi,
\* Car or Train) 10 x the segment distance rounded to the nearest integer.
C21_SegmentsAndCosts ==
    travel.pc = "done" =>
        /\ Len(travel.result) = Max(0, Len(travel.cities_order) - 1)
        /\ \A i \in 1..Len(travel.result) :
            LET segment == travel.result[i]
            IN  /\ segment.from = travel.cities_order[i]
                /\ segment.to = travel.cities_order[i + 1]
                /\ segment.cost_estimate =
                    IF segment.transport = "Flight" THEN 4000
                    ELSE IF segment.transport = "Train" THEN 1500
                    ELSE RoundHalfEven(10 * SegmentDistance(i), Km(1))

\* The hours of a flight, in tenths.
FlightHours == 20

\* C27: in every segment built by create_travel_plan, if the recommended
\* transport is Flight then travel_time_hours is the fixed flight time 2.0.
C27_FlightsTakeTwoHours ==
    travel.pc = "done" =>
        \A i \in 1..Len(travel.result) :
            travel.result[i].transport = "Flight" =>
                travel.result[i].travel_time_hours = FlightHours

\* C26: the days returned by allocate_days_to_cities plus the reserved
\* travel time (half a day per transition between consecutive cities)
\* never exceed total_days.  Both sides are doubled to stay in integers.
C26_DaysAndTravelFitTheTrip ==
    alloc.pc = "done" =>
        2 * AllocSum + (Len(alloc.selected_cities) - 1) <= 2 * alloc.total_days

----------------------------------------------------------------------------
(* Budget selection: consensus.py, select_budget_friendly_cities           *)

MaxPickRanked == 4

\* Scores (in hundredths) on both sides of the test score > 60.
PickScores == {7500, 6001, 6000}

\* Entries of the cities database: complete ones, and one without the
\* mid-range cost and without typical_days.
PickEntries ==
    {[avg_daily_cost |-> [t \in {"mid-range"} |-> 2000], typical_days |-> 2],
     [avg_daily_cost |-> [t \in {"mid-range"} |-> 3000], typical_days |-> 3],
     [avg_daily_cost |-> [t \in {"budget"} |-> 1000]]}

\* Ranked lists of the first k cities: scores never rise along the list.
PickRankedLists(k) ==
    {[i \in 1..k |-> <<CityNames[i], score[i]>>] :
        score \in {f \in [1..k -> PickScores] :
                        \A i \in 1..(k - 1) : f[i] >= f[i + 1]}}

\* Databases holding an entry for some of the first k cities.
PickDatabases(k) ==
    UNION {[known -> PickEntries] : known \in SUBSET Range(FirstCities(k))}

InitPick ==
    /\ \E k \in 0..MaxPickRanked : \E n \in 0..(MaxPickRanked + 1) :
       \E ranked_cities \in PickRankedLists(k) :
       \E cities_database \in PickDatabases(k) :
            pick = [pc |-> "call", ranked_cities |-> ranked_cities,
                    num_cities |-> n, cities_database |-> cities_database,
                    selected |-> <<>>]
    /\ EarlierUnused
    /\ count = Unused
    /\ run = Unused
    /\ loaded = Unused
    /\ compat = Unused
    /\ fit = Unused
    /\ travel = Unused

SelectBudgetFriendly ==
    /\ pick.pc = "call"
    /\ pick' = [pick EXCEPT
            !.pc = "done",
            !.selected = select_budget_friendly_cities(
                pick.ranked_cities, pick.num_cities, pick.cities_database)]
    /\ UNCHANGED <<earlierVars, count, run, loaded, compat, fit, travel>>

NextPick == SelectBudgetFriendly

SpecPick == InitPick /\ [][NextPick]_vars

\* The ranked cities of the call that score above 60, in rank order.
PickQualifying ==
    NamesOf(SelectSeq(pick.ranked_cities,
                      LAMBDA pair : ScoreOf(pair) > BudgetScoreThreshold))

\* The ranked cities of the call that do not, in rank order.
PickOthers ==
    NamesOf(SelectSeq(pick.ranked_cities,
                      LAMBDA pair : ~(ScoreOf(pair) > BudgetScoreThreshold)))

\* C22: select_budget_friendly_cities returns min(N, number of ranked
\* cities) distinct cities.  When at least N ranked cities score above 60
\* they are N such cities and no qualifying city left out is cheaper
\* (daily mid-range cost x typical days) than a returned one; when fewer
\* qualify, the result is all qualifying cities followed by the
\* highest-ranked remaining cities in rank order.
C22_BudgetSelection ==
    pick.pc = "done" =>
        LET selected == pick.selected
            qualifying == PickQualifying
            cost(c) == MidRangeTotalCost(pick.cities_database, c)
        IN  /\ Len(selected) = Min(pick.num_cities, Len(pick.ranked_cities))
            /\ \A i, j \in 1..Len(selected) : selected[i] = selected[j] => i = j
            /\ Len(qualifying) >= pick.num_cities =>
                /\ Range(selected) \subseteq Range(qualifying)
                /\ \A s \in Range(selected) :
                   \A t \in Range(qualifying) \ Range(selected) :
                        cost(s) <= cost(t)
            /\ Len(qualifying) < pick.num_cities =>
                /\ Range(SubSeq(selected, 1, Len(qualifying)))
                        = Range(qualifying)
                /\ SubSeq(selected, Len(qualifying) + 1, Len(selected))
                        = SubSeq(PickOthers, 1,
                                 Len(selected) - Len(qualifying))

\* C22 witness: a call with more qualifying cities than asked for, whose
\* result leaves out a higher-ranked qualifying city for a cheaper one.
C22_Witness ==
    /\ pick.pc = "done"
    /\ pick.num_cities = 2
    /\ Len(PickQualifying) > 2
    /\ PickQualifying[1] \notin Range(pick.selected)
    /\ Len(pick.selected) = 2

\* C22 witness of the second case: fewer cities qualify than asked for and
\* the result is padded with a city that does not score above 60.
C22_PaddedWitness ==
    /\ pick.pc = "done"
    /\ Len(PickQualifying) = 1
    /\ pick.num_cities = 3
    /\ Len(pick.selected) = 3

----------------------------------------------------------------------------
(* Region lookup: consensus.py, select_region with incomplete reference    *)
(* data                                                                    *)

MaxLookupVoters == 2

\* regions_data['regions'] holding only some of the regions.
PartialRegionsData ==
    {[r \in known |-> FirstCities(2)] : known \in SUBSET Regions}

InitVoteLookup ==
    /\ \E n \in 1..MaxLookupVoters : \E u \in [1..n -> Voters] :
       \E regions \in PartialRegionsData :
            vote = [pc |-> "call", users_data |-> u, regions |-> regions,
                    result |-> [selected_region |-> "", raised |-> "none",
                                region_cities |-> <<>>]]
    /\ alloc = Unused
    /\ route = Unused
    /\ mix = Unused
    /\ rank = Unused
    /\ SessionsUnused
    /\ PipelineUnused

SpecVoteLookup == InitVoteLookup /\ [][NextVote]_vars

\* C23: when the region that wins the vote is missing from the regions
\* reference data, select_region does not abort: it returns (with a
\* default in place of the missing entry) instead of raising.
C23_MissingRegionDoesNotAbort ==
    (vote.pc = "done" /\ vote.result.selected_region \notin DOMAIN vote.regions)
        => vote.result.raised = "none"

\* C29: in every result of generate_itinerary_options, the
\* estimated_cost_per_person of the Budget-Friendly option (option 2) is at
\* most that of the Optimal Match option (option 1).
C29_BudgetOptionIsNotDearer ==
    (run.pc \in {"narrative", "attach", "done"} /\ "results" \in DOMAIN run) =>
        run.results.options[2].estimated_cost_per_person
            <= run.results.options[1].estimated_cost_per_person

----------------------------------------------------------------------------
(* Application flow: app.py, show_join_session with the 'Generate Trip     *)
(* Plan' button, and data_handler.py, mark_session_complete                *)
(*                                                                         *)
(* The sessions exist (create_session has run for each); participants      *)
(* submit through add_user_to_session while page runs of the join page     *)
(* render, read the progress, generate and mark the session complete.      *)
(* Every load_session and save_session is a step of its own.  The          *)
(* completion timestamp is left out of the persisted record.               *)

FlowSessionIds == {"s1", "s2"}

\* The script runs of the join page in which the button is pressed.
Pages == {"g1"}

FlowNames == {"Alice", "Bob"}

\* The results a page run holds before generate_itinerary_options returned.
NoResults == [options_for |-> <<>>]

IdlePage == [pc |-> "idle", session_id |-> "", session |-> None,
             results |-> NoResults, loaded |-> None, returned |-> "none"]

\* The outcomes of generate_itinerary_options(session['users'], ...): it
\* raises (always for an empty users list, where max() of no votes raises
\* ValueError), or returns results computed from those users.
GenerateOutcomes(users) ==
    {[raised |-> TRUE, results |-> NoResults]}
        \union (IF Len(users) = 0 THEN {}
                ELSE {[raised |-> FALSE,
                       results |-> [options_for |->
                            [i \in 1..Len(users) |-> users[i].name]]]})

\* try: results = generate_itinerary_options(...); mark_session_complete(...)
\* except Exception: st.error(...), as the page run's next position when
\* the except branch would go on to mark the session complete.
AfterGenerate_MarkAnyway(page, outcome) ==
    [page EXCEPT !.pc = "mark_load", !.results = outcome.results,
                 !.returned = IF outcome.raised THEN "raised" ELSE "none"]

\* try: results = generate_itinerary_options(...); mark_session_complete(...)
\* except Exception: st.error(...)
AfterGenerate(page, outcome) ==
    IF outcome.raised
    THEN [page EXCEPT !.pc = "returned", !.returned = "raised"]
    ELSE [page EXCEPT !.pc = "mark_load", !.results = outcome.results]

InitFlow ==
    /\ \E expected_users \in [FlowSessionIds -> 2..MaxExpectedUsers] :
            store = [sid \in FlowSessionIds |->
                        NewSession("Alice", expected_users[sid])]
    /\ client = [p \in Clients \union Pages |->
                    IF p \in Pages THEN IdlePage ELSE IdleClient]
    /\ clock = 0
    /\ alloc = Unused
    /\ route = Unused
    /\ mix = Unused
    /\ rank = Unused
    /\ vote = Unused
    /\ PipelineUnused

\* session = load_session(session_id) at the top of show_join_session; a
\* missing session and a completed one end the run.
PageRender(g, session_id) ==
    /\ client[g].pc = "idle"
    /\ LET session == load_session(session_id)
       IN  client' = [client EXCEPT ![g] =
                IF session = None
                THEN [@ EXCEPT !.pc = "returned", !.session_id = session_id,
                               !.returned = "not found"]
                ELSE IF session.status = "completed"
                THEN [@ EXCEPT !.pc = "returned", !.session_id = session_id,
                               !.returned = "show_results"]
                ELSE [@ EXCEPT !.pc = "progress", !.session_id = session_id,
                               !.session = session]]
    /\ UNCHANGED <<store, clock, pureVars>>

\* get_session_progress(session_id)
get_session_progress(session_id) ==
    LET session == load_session(session_id)
    IN  IF session = None THEN <<0, 0>>
        ELSE <<Len(session.users), session.expected_users>>

\* submitted_count, expected, names = get_session_progress(session_id);
\* if submitted_count >= expected: the button is there, and pressed or not.
PageProgress(g, pressed) ==
    /\ client[g].pc = "progress"
    /\ LET progress == get_session_progress(client[g].session_id)
       IN  client' = [client EXCEPT ![g] =
                IF progress[1] >= progress[2] /\ pressed
                THEN [@ EXCEPT !.pc = "generate"]
                ELSE [@ EXCEPT !.pc = "returned", !.returned = "waiting"]]
    /\ UNCHANGED <<store, clock, pureVars>>

\* results = generate_itinerary_options(session['users'], REGIONS_DATA),
\* on the users of the copy loaded when the page was rendered.
PageGenerate(g) ==
    /\ client[g].pc = "generate"
    /\ \E outcome \in GenerateOutcomes(client[g].session.users) :
            client' = [client EXCEPT ![g] = AfterGenerate(@, outcome)]
    /\ UNCHANGED <<store, clock, pureVars>>

\* mark_session_complete: session = load_session(session_id);
\* if not session: return False
MarkCompleteLoad(g) ==
    /\ client[g].pc = "mark_load"
    /\ LET session == load_session(client[g].session_id)
       IN  client' = [client EXCEPT ![g] =
                IF session = None
                THEN [@ EXCEPT !.pc = "returned", !.returned = "False"]
                ELSE [@ EXCEPT !.pc = "mark_save", !.loaded = session]]
    /\ UNCHANGED <<store, clock, pureVars>>

\* mark_session_complete: status = 'completed', results = results,
\* save_session, return True.
MarkCompleteSave(g) ==
    /\ client[g].pc = "mark_save"
    /\ save_session(client[g].session_id,
                    [client[g].loaded EXCEPT !.status = "completed",
                                             !.results = client[g].results])
    /\ client' = [client EXCEPT ![g] =
            [@ EXCEPT !.pc = "returned", !.returned = "True"]]
    /\ UNCHANGED <<clock, pureVars>>

NextFlow ==
    \/ \E p \in Clients, session_id \in FlowSessionIds, name \in FlowNames :
            BeginAddUser(p, session_id, name, "prefsA")
    \/ \E p \in Clients : AddUserLoad(p)
    \/ \E p \in Clients : AddUserSave(p)
    \/ \E g \in Pages, session_id \in FlowSessionIds :
            PageRender(g, session_id)
    \/ \E g \in Pages, pressed \in BOOLEAN : PageProgress(g, pressed)
    \/ \E g \in Pages : PageGenerate(g)
    \/ \E g \in Pages : MarkCompleteLoad(g)
    \/ \E g \in Pages : MarkCompleteSave(g)

SpecFlow == InitFlow /\ [][NextFlow]_vars

\* A page run whose generate_itinerary_options call raised.
RunRaised(g) == client[g].pc = "returned" /\ client[g].returned = "raised"

\* C24: when generate_itinerary_options raises during a 'Generate Trip
\* Plan' run, the persisted record of that session and of every other
\* session is unchanged: the raising step writes nothing and ends the run,
\* and the session of the run still has status 'collecting' and no results.
C24_FailedRunLeavesSessionsAlone ==
    /\ [][\A g \in Pages :
            (client[g].pc = "generate" /\ client'[g].returned = "raised")
                => (store' = store /\ client'[g].pc = "returned")]_vars
    /\ [](\A g \in Pages :
            RunRaised(g) =>
                /\ store[client[g].session_id].status = "collecting"
                /\ store[client[g].session_id].results = "none")

\* C24 witness: a run has raised for a session whose participants have all
\* submitted, and the session is still collecting with its users in place.
C24_Witness ==
    \E g \in Pages :
        /\ RunRaised(g)
        /\ store[client[g].session_id].status = "collecting"
        /\ Len(store[client[g].session_id].users)
                >= store[client[g].session_id].expected_users
        /\ \E other \in FlowSessionIds \ {client[g].session_id} :
                Len(store[other].users) > 0

\* C25: once mark_session_complete has persisted status 'completed' and the
\* results of a session, a save by a concurrent add_user_to_session call
\* leaves the session 'completed' with the same results.
C25_CompletionSurvivesSubmissions ==
    [][\A session_id \in FlowSessionIds :
        (/\ store[session_id].status = "completed"
         /\ \E p \in Clients :
                /\ client[p].pc = "save"
                /\ client'[p].pc = "returned"
                /\ client[p].session_id = session_id)
        => /\ store'[session_id].status = "completed"
           /\ store'[session_id].results = store[session_id].results]_vars

\* C28: a session is persisted with status 'completed' only if the
\* persisted users list holds at least expected_users participant records.
C28_CompletedMeansEveryoneSubmitted ==
    \A session_id \in FlowSessionIds :
        store[session_id].status = "completed" =>
            Len(store[session_id].users) >= store[session_id].expected_users

====
